---- MODULE Spec2Model ----
(***************************************************************************)
(* express-jwt-scope: permission grammar, wildcard matcher and boolean     *)
(* rule combinators of the authorization middleware.                       *)
(*                                                                         *)
(* A JavaScript string is a sequence of one-character strings, so that     *)
(* split, the regular expressions and '===' are computed and not assumed.  *)
(* A permission segment sequence (string[]) is a sequence of such strings. *)
(***************************************************************************)
EXTENDS Integers, Sequences, FiniteSets, TLC

VARIABLES
  pure,           \* a library function applied to drawn inputs, and its result
  config,         \* the options expressJwtScope(options) keeps in its closure
  phase,          \* "new", "built" (a middleware exists) or "failed" (a call threw)
  accessChecker,  \* the rule the middleware's closure currently holds
  chain,          \* the factory/.or/.not calls that returned, in call order
  thrown,         \* the factory/.or/.not call that threw, with its error
  req,            \* the request being handled
  pc,             \* "idle", "running" or "settled": the middleware call
  stack,          \* the rule calls in progress, outermost first
  helpers,        \* the helpers object of the call
  grantedScope,   \* the parsed granted permissions of the call
  returns,        \* what each callable returned or threw in this call
  log,            \* rule calls and returns of the call, in order
  result,         \* the value accessChecker(...) resolved to
  nextCalls,      \* the argument lists next was called with
  rejection,      \* the error the handler's promise rejected with
  attachment,     \* what the call put at the request's requestProperty
  handler,        \* the handler called: the middleware or its promisify()
  seen,           \* what each predicate call received and did with it
  parked          \* another call of the same middleware, waiting its turn

vars == <<pure, config, phase, accessChecker, chain, thrown, req, pc, stack,
          helpers, grantedScope, returns, log, result, nextCalls, rejection,
          attachment, handler, seen, parked>>

buildVars == <<config, phase, accessChecker, chain, thrown>>

callVars == <<req, pc, stack, helpers, grantedScope, returns, log, result,
              nextCalls, rejection, attachment, handler, seen, parked>>

(* ------------------------------ bounds --------------------------------- *)

\* longest permission segment sequence drawn for the matcher
MaxSegs == 3
\* largest granted scope (number of granted permissions) drawn for the matcher
MaxGranted == 1
\* longest string drawn as a requested permission for the parser
MaxStrLen == 3
\* longest argument list drawn for the parser
MaxArgvLen == 3

(* ------------------------------ strings -------------------------------- *)

\* the wildcard scope '*'
Star == <<"*">>

\* segments drawn as inputs of the matcher
SegNames == {<<"a">>, <<"b">>}

SeqsUpTo(S, n) == UNION {[1..k -> S] : k \in 0..n}

\* requested permissions as factoryArgv produces them: no wildcard anywhere
RequestedSeqs == SeqsUpTo(SegNames, MaxSegs) \ {<<>>}

\* granted permissions as parseGrantedScope produces them: a name, then
\* qualifiers that may be the wildcard
GrantedSeqs ==
  {<<n>> \o q : n \in SegNames, q \in SeqsUpTo(SegNames \cup {Star}, MaxSegs - 1)}

(* ------------------------------ matcher -------------------------------- *)

\* Array.prototype.slice(start) with a 0-based start; every(...) below is a
\* quantifier over the indexes of the array
Slice(arr, start) == [i \in 1..(Len(arr) - start) |-> arr[i + start]]

\* the matcher of the releases that treat the wildcard as strictly positional
inGrantedRuleEqualLength(requested, grantedList) ==
  \E k \in 1..Len(grantedList) :
    LET granted == grantedList[k] IN
      /\ Len(granted) = Len(requested)
      /\ (\A index \in 1..Len(granted) :
              granted[index] = Star \/ granted[index] = requested[index])

\* a matcher that forgets the wildcard in the equal-length branch
inGrantedRuleNoWildcard(requested, grantedList) ==
  \E k \in 1..Len(grantedList) :
    LET granted == grantedList[k] IN
      IF Len(granted) = Len(requested)
      THEN (\A index \in 1..Len(granted) : granted[index] = requested[index])
      ELSE IF Len(granted) > Len(requested)
      THEN LET tail == Slice(granted, Len(requested)) IN
             /\ (\A index \in 1..Len(tail) : tail[index] = Star)
             /\ (\A index \in 1..Len(requested) :
                   requested[index] = granted[index])
      ELSE FALSE

\* a matcher that lets a shorter grant cover its extensions
inGrantedRulePrefix(requested, grantedList) ==
  \E k \in 1..Len(grantedList) :
    LET granted == grantedList[k] IN
      IF Len(granted) <= Len(requested)
      THEN (\A index \in 1..Len(granted) :
              granted[index] = Star \/ granted[index] = requested[index])
      ELSE LET tail == Slice(granted, Len(requested)) IN
             /\ (\A index \in 1..Len(tail) : tail[index] = Star)
             /\ (\A index \in 1..Len(requested) :
                   requested[index] = granted[index])

\* inGrantedRule(requested)(grantedScope)
inGrantedRule(requested, grantedList) ==
  \E k \in 1..Len(grantedList) :
    LET granted == grantedList[k] IN
      IF Len(granted) = Len(requested)
      THEN (\A index \in 1..Len(granted) :
              granted[index] = Star \/ granted[index] = requested[index])
      ELSE IF Len(granted) > Len(requested)
      THEN LET tail == Slice(granted, Len(requested)) IN
             /\ (\A index \in 1..Len(tail) : tail[index] = Star)
             /\ (\A index \in 1..Len(requested) :
                   requested[index] = granted[index])
      ELSE FALSE

(* --------------------------- JavaScript values ------------------------- *)

\* no library function is being applied
NoPure == [fn |-> "none"]

\* typeof value === 'string', with the characters of the string
Str(chars) == [t |-> "string", v |-> chars]

\* typeof value === 'function', with the name that identifies the callable
Fn(name) == [t |-> "function", v |-> <<name>>]

\* a value that is neither a string nor a function
Num == [t |-> "number", v |-> <<"1">>]

\* undefined
Undefined == [t |-> "undefined", v |-> <<>>]

\* null
Null == [t |-> "null", v |-> <<>>]

True == [t |-> "boolean", v |-> <<"true">>]

False == [t |-> "boolean", v |-> <<"false">>]

One == [t |-> "number", v |-> <<"1">>]

Zero == [t |-> "number", v |-> <<"0">>]

\* what `value && ...`, `value || ...` and `!value` take value for
ToBoolean(value) ==
  IF value.t \in {"undefined", "null"} THEN FALSE
  ELSE IF value.t = "string" THEN value.v # <<>>
  ELSE IF value.t = "number" THEN value.v # <<"0">>
  ELSE IF value.t = "boolean" THEN value.v = <<"true">>
  ELSE TRUE

\* an option that the release at hand does not read
Absent == [t |-> "absent", v |-> <<>>]

\* an array of values
Array(values) == [t |-> "array", v |-> values]

\* an element of factoryArgv's result that came from a string: string[]
Arr(segments) == [t |-> "string[]", v |-> segments]

\* utils.isFunction
isFunction(value) == value.t = "function"

\* utils.isString
isString(value) == value.t = "string"

\* String.prototype.split(separator) for a one-character separator; the
\* empty string splits into one empty string
RECURSIVE SplitFrom(_, _, _, _)
SplitFrom(chars, separator, i, current) ==
  IF i > Len(chars) THEN <<current>>
  ELSE IF chars[i] = separator
       THEN <<current>> \o SplitFrom(chars, separator, i + 1, <<>>)
       ELSE SplitFrom(chars, separator, i + 1, Append(current, chars[i]))

Split(chars, separator) == SplitFrom(chars, separator, 1, <<>>)

\* const claimCharset = '[a-zA-Z0-9_]': the members of the character class
claimCharset ==
  {"a", "b", "c", "d", "e", "f", "g", "h", "i", "j", "k", "l", "m",
   "n", "o", "p", "q", "r", "s", "t", "u", "v", "w", "x", "y", "z",
   "A", "B", "C", "D", "E", "F", "G", "H", "I", "J", "K", "L", "M",
   "N", "O", "P", "Q", "R", "S", "T", "U", "V", "W", "X", "Y", "Z",
   "0", "1", "2", "3", "4", "5", "6", "7", "8", "9", "_"}

\* requestedClaimRegex.test(claim) for
\* ^${claimCharset}+(\${claimScopeDelimiter}${claimCharset}+)*$ run as an
\* automaton: "start" and "delimiter" need a charset character next, "run"
\* is inside a charset run and is the only accepting state. The delimiter is
\* punctuation, never a member of the charset.
RECURSIVE requestedClaimRegexFrom(_, _, _, _, _)
requestedClaimRegexFrom(chars, charset, delimiter, i, state) ==
  IF i > Len(chars) THEN state = "run"
  ELSE IF chars[i] \in charset
       THEN requestedClaimRegexFrom(chars, charset, delimiter, i + 1, "run")
       ELSE IF chars[i] = delimiter /\ state = "run"
            THEN requestedClaimRegexFrom(chars, charset, delimiter, i + 1,
                                         "delimiter")
            ELSE FALSE

\* a requested grammar that lets the wildcard through as a scope
requestedClaimRegexWildcard(chars, charset, delimiter) ==
  requestedClaimRegexFrom(chars, charset \cup {"*"}, delimiter, 1, "start")

requestedClaimRegex(chars, charset, delimiter) ==
  requestedClaimRegexFrom(chars, charset, delimiter, 1, "start")

(* ------------------------------- errors -------------------------------- *)

NoError ==
  [name |-> "none", message |-> "none", code |-> "none", status |-> 0,
   expose |-> FALSE]

\* new ExpressJwtScopeError(message, code): no status, no expose
ExpressJwtScopeError(code) ==
  [name |-> "ExpressJwtScopeError", message |-> code, code |-> code,
   status |-> 0, expose |-> FALSE]

\* new ForbiddenError(message): code defaults to 'authorization_fail'
ForbiddenErrorWith(message) ==
  [name |-> "ForbiddenError", message |-> message,
   code |-> "authorization_fail", status |-> 403, expose |-> TRUE]

\* new ForbiddenError(): message defaults to 'Forbidden'
ForbiddenError == ForbiddenErrorWith("Forbidden")

\* error403(undefined, 'no_permissions')
ForbiddenNoPermissions ==
  [name |-> "ForbiddenError", message |-> "Forbidden",
   code |-> "no_permissions", status |-> 403, expose |-> TRUE]

\* the error of a request without a token: 401, exposed
UnauthorizedError ==
  [name |-> "UnauthorizedError",
   message |-> "No authorization token was found", code |-> "unspecified",
   status |-> 401, expose |-> TRUE]

\* a server error built like the error of a failed authorization
InternalServerErrorAsForbidden(code) ==
  [name |-> "ForbiddenError", message |-> code, code |-> code,
   status |-> 403, expose |-> TRUE]

\* new InternalServerError(message, code)
InternalServerError(code) ==
  [name |-> "InternalServerError", message |-> code, code |-> code,
   status |-> 500, expose |-> FALSE]

\* what a callable throws by itself
CallableError ==
  [name |-> "Error", message |-> "thrown by callable", code |-> "none",
   status |-> 0, expose |-> FALSE]

(* -------------------------- requested parser --------------------------- *)

\* the property names every object literal {} inherits from Object.prototype,
\* for which `name in {}` is true
ObjectPrototypeKeys ==
  { <<"c","o","n","s","t","r","u","c","t","o","r">>,
    <<"t","o","S","t","r","i","n","g">>,
    <<"v","a","l","u","e","O","f">>,
    <<"_","_","p","r","o","t","o","_","_">> }

\* `claim in hash`, where hash = {} has had hash[k] = true for every k of own
claimInHash(claim, own) == claim \in own \/ claim \in ObjectPrototypeKeys

\* the loop of factoryArgv from claims[index] on: the first offending claim
\* throws, a function is pushed as it is, a string is split and pushed unless
\* `claim in hash`
RECURSIVE factoryArgvLoop(_, _, _, _, _, _)
factoryArgvLoop(claims, charset, delimiter, index, hash, outputArgs) ==
  IF index > Len(claims) THEN [err |-> NoError, out |-> outputArgs]
  ELSE LET claim == claims[index] IN
    IF isFunction(claim)
    THEN factoryArgvLoop(claims, charset, delimiter, index + 1, hash,
                         Append(outputArgs, claim))
    ELSE IF isString(claim)
    THEN IF ~requestedClaimRegex(claim.v, charset, delimiter)
         THEN [err |-> ExpressJwtScopeError("invalid_argument"), out |-> <<>>]
         ELSE IF ~claimInHash(claim.v, hash)
         THEN factoryArgvLoop(claims, charset, delimiter, index + 1,
                              hash \cup {claim.v},
                              Append(outputArgs, Arr(Split(claim.v, delimiter))))
         ELSE factoryArgvLoop(claims, charset, delimiter, index + 1, hash,
                              outputArgs)
    ELSE [err |-> ExpressJwtScopeError("invalid_argument"), out |-> <<>>]

\* utils.factoryArgv(claims, claimCharset, claimScopeDelimiter): the result,
\* or the error thrown
factoryArgv(claims, charset, delimiter) ==
  IF Len(claims) = 0
  THEN [err |-> ExpressJwtScopeError("empty_argument_list"), out |-> <<>>]
  ELSE factoryArgvLoop(claims, charset, delimiter, 1, {}, <<>>)

(* ---------------------------- granted parser --------------------------- *)

\* grantedClaimRegex.test(claim) for
\* ^${claimCharset}+(\${claimScopeDelimiter}(${claimCharset}+|\*))*$ run as
\* an automaton: as the requested one, with a state "star" after a '*' that
\* stands alone as a scope; "run" and "star" accept.
RECURSIVE grantedClaimRegexFrom(_, _, _, _, _)
grantedClaimRegexFrom(chars, charset, delimiter, i, state) ==
  IF i > Len(chars) THEN state \in {"run", "star"}
  ELSE IF chars[i] \in charset /\ state # "star"
       THEN grantedClaimRegexFrom(chars, charset, delimiter, i + 1, "run")
       ELSE IF chars[i] = delimiter /\ state \in {"run", "star"}
            THEN grantedClaimRegexFrom(chars, charset, delimiter, i + 1,
                                       "delimiter")
            ELSE IF chars[i] = "*" /\ state = "delimiter"
                 THEN grantedClaimRegexFrom(chars, charset, delimiter, i + 1,
                                            "star")
                 ELSE FALSE

grantedClaimRegex(chars, charset, delimiter) ==
  grantedClaimRegexFrom(chars, charset, delimiter, 1, "start")

RECURSIVE parseGrantedScopeLoop(_, _, _, _, _)

\* a loop that leaves out an element it cannot read
parseGrantedScopeLoopSkips(claimList, charset, delimiter, index, outputScope) ==
  IF index > Len(claimList) THEN [err |-> NoError, out |-> outputScope]
  ELSE LET claim == claimList[index] IN
    IF ~isString(claim) \/ ~grantedClaimRegex(claim.v, charset, delimiter)
    THEN parseGrantedScopeLoop(claimList, charset, delimiter, index + 1,
                               outputScope)
    ELSE parseGrantedScopeLoop(claimList, charset, delimiter, index + 1,
                               Append(outputScope, Split(claim.v, delimiter)))

\* the loop of parseGrantedScope from claimList[index] on
parseGrantedScopeLoop(claimList, charset, delimiter, index, outputScope) ==
  IF index > Len(claimList) THEN [err |-> NoError, out |-> outputScope]
  ELSE LET claim == claimList[index] IN
    IF ~isString(claim) \/ ~grantedClaimRegex(claim.v, charset, delimiter)
    THEN [err |-> InternalServerError("unsupported_permission_value"),
          out |-> <<>>]
    ELSE parseGrantedScopeLoop(claimList, charset, delimiter, index + 1,
                               Append(outputScope, Split(claim.v, delimiter)))

\* a parser that splits the empty string like any other string
parseGrantedScopeSplitsEmpty(scope, claimDelimiter, charset, claimScopeDelimiter) ==
  IF isString(scope)
  THEN LET parts == Split(scope.v, claimDelimiter)
           claimList == [i \in 1..Len(parts) |-> Str(parts[i])]
       IN parseGrantedScopeLoop(claimList, charset, claimScopeDelimiter, 1, <<>>)
  ELSE IF scope = Undefined
  THEN parseGrantedScopeLoop(<<>>, charset, claimScopeDelimiter, 1, <<>>)
  ELSE IF scope.t # "array"
  THEN [err |-> InternalServerError("unsupported_scope_type"), out |-> <<>>]
  ELSE parseGrantedScopeLoop(scope.v, charset, claimScopeDelimiter, 1, <<>>)

\* utils.parseGrantedScope(scope, claimDelimiter, claimCharset,
\* claimScopeDelimiter): the granted permissions, or the error thrown
parseGrantedScope(scope, claimDelimiter, charset, claimScopeDelimiter) ==
  IF isString(scope)
  THEN LET parts == Split(scope.v, claimDelimiter)
           claimList == IF scope.v # <<>>
                        THEN [i \in 1..Len(parts) |-> Str(parts[i])]
                        ELSE <<>>
       IN parseGrantedScopeLoop(claimList, charset, claimScopeDelimiter, 1, <<>>)
  ELSE IF scope = Undefined
  THEN parseGrantedScopeLoop(<<>>, charset, claimScopeDelimiter, 1, <<>>)
  ELSE IF scope.t # "array"
  THEN [err |-> InternalServerError("unsupported_scope_type"), out |-> <<>>]
  ELSE parseGrantedScopeLoop(scope.v, charset, claimScopeDelimiter, 1, <<>>)

(* ---------------------------- configuration --------------------------- *)

\* the grave accent, which a string of this language cannot hold
GraveAccent == "grave accent"

\* const delimiterRegex = /[-!"#$%&'()+,./:;<=>?@[\]^.{|}~]/ with the grave
\* accent where the dot after ^ stands: the members of the character class
delimiterRegex ==
  {"-", "!", "\"", "#", "$", "%", "&", "'", "(", ")", "+", ",", ".", "/",
   ":", ";", "<", "=", ">", "?", "@", "[", "]", "^", GraveAccent, "{", "|",
   "}", "~"}

validDelimiter(delimiter) == isString(delimiter) /\ Len(delimiter.v) = 1

validClaimDelimiter(delimiter) ==
  /\ validDelimiter(delimiter)
  /\ (delimiter.v[1] \in delimiterRegex \/ delimiter.v[1] = " ")

validClaimScopeDelimiter(delimiter) ==
  validDelimiter(delimiter) /\ delimiter.v[1] \in delimiterRegex

\* no configuration: moduleArgv threw
NoConfig == [claimDelimiter |-> "", claimScopeDelimiter |-> ""]

\* the configuration moduleArgv returns from delimiters that passed
moduleArgvConfig(options, claimDelimiter, claimScopeDelimiter) ==
  [adminClaimEnabled |-> options.adminClaimEnabled = True,
   claimDelimiter |-> claimDelimiter,
   claimScopeDelimiter |-> claimScopeDelimiter,
   scopeKey |-> "scope",
   scopeRequired |-> options.scopeRequired # False,
   tokenKey |-> "user"]

\* a moduleArgv that looks for equal delimiters among the supplied values,
\* before the defaults are filled in
moduleArgvComparesSupplied(options) ==
  LET claimDelimiter == IF ToBoolean(options.claimDelimiter)
                        THEN options.claimDelimiter.v[1] ELSE ","
      claimScopeDelimiter == IF ToBoolean(options.claimScopeDelimiter)
                             THEN options.claimScopeDelimiter.v[1] ELSE ":"
  IN IF /\ ToBoolean(options.claimDelimiter)
        /\ ~validClaimDelimiter(options.claimDelimiter)
     THEN [err |-> ExpressJwtScopeError("invalid_config_option"),
           out |-> NoConfig]
     ELSE IF /\ ToBoolean(options.claimScopeDelimiter)
             /\ ~validClaimScopeDelimiter(options.claimScopeDelimiter)
     THEN [err |-> ExpressJwtScopeError("invalid_config_option"),
           out |-> NoConfig]
     ELSE IF /\ ToBoolean(options.claimDelimiter)
             /\ options.claimDelimiter = options.claimScopeDelimiter
     THEN [err |-> ExpressJwtScopeError("invalid_configuration"),
           out |-> NoConfig]
     ELSE [err |-> NoError,
           out |-> moduleArgvConfig(options, claimDelimiter,
                                    claimScopeDelimiter)]

\* utils.moduleArgv(options) with scopeKey and tokenKey left to their
\* defaults: the configuration, or the error thrown
moduleArgv(options) ==
  LET claimDelimiter == IF ToBoolean(options.claimDelimiter)
                        THEN options.claimDelimiter.v[1] ELSE ","
      claimScopeDelimiter == IF ToBoolean(options.claimScopeDelimiter)
                             THEN options.claimScopeDelimiter.v[1] ELSE ":"
  IN IF /\ ToBoolean(options.claimDelimiter)
        /\ ~validClaimDelimiter(options.claimDelimiter)
     THEN [err |-> ExpressJwtScopeError("invalid_config_option"),
           out |-> NoConfig]
     ELSE IF /\ ToBoolean(options.claimScopeDelimiter)
             /\ ~validClaimScopeDelimiter(options.claimScopeDelimiter)
     THEN [err |-> ExpressJwtScopeError("invalid_config_option"),
           out |-> NoConfig]
     ELSE IF claimDelimiter = claimScopeDelimiter
     THEN [err |-> ExpressJwtScopeError("invalid_configuration"),
           out |-> NoConfig]
     ELSE [err |-> NoError,
           out |-> moduleArgvConfig(options, claimDelimiter,
                                    claimScopeDelimiter)]

(* -------------------------------- rules -------------------------------- *)

\* no rule: the closure variable before the factory has assigned it
NoRule == [rule |-> "none"]

\* adminRule(path)
adminRule == [rule |-> "adminRule"]

\* userAdminRule(callable)
userAdminRule(callable) == [rule |-> "userAdminRule", callable |-> callable]

\* userRule(callable)
userRule(callable) == [rule |-> "userRule", callable |-> callable]

\* inGrantedRule(requested), the closure
inGranted(requested) == [rule |-> "inGrantedRule", requested |-> requested]

\* notRule(rule)
notRule(rule) == [rule |-> "notRule", rules |-> <<rule>>]

\* andReducer(...rules)
andReducer(rules) == [rule |-> "andReducer", rules |-> rules]

\* orReducer(...rules)
orReducer(rules) == [rule |-> "orReducer", rules |-> rules]

\* ruleQueueBuilder(claims): the rule, or the error factoryArgv threw
ruleQueueBuilder(claims, delimiter) ==
  LET argv == factoryArgv(claims, claimCharset, delimiter)
      queue == [i \in 1..Len(argv.out) |->
                  IF isFunction(argv.out[i]) THEN userRule(argv.out[i].v[1])
                  ELSE inGranted(argv.out[i].v)]
  IN IF argv.err # NoError THEN [err |-> argv.err, rule |-> NoRule]
     ELSE [err |-> NoError,
           rule |-> IF Len(queue) = 1 THEN queue[1] ELSE andReducer(queue)]

\* a factory that builds the rule queue whether or not an admin key is set
factoryCheckerAlwaysBuilds(adminKey, permissions, delimiter) ==
  LET built == ruleQueueBuilder(permissions, delimiter)
      admin == IF isFunction(adminKey) THEN userAdminRule(adminKey.v[1])
               ELSE adminRule
  IN IF built.err # NoError THEN built
     ELSE IF adminKey # Undefined
     THEN [err |-> NoError, rule |-> orReducer(<<admin, built.rule>>)]
     ELSE built

\* a factory that puts the admin rule behind the requested rules
factoryCheckerAdminLast(adminKey, permissions, delimiter) ==
  LET built == ruleQueueBuilder(permissions, delimiter)
      admin == IF isFunction(adminKey) THEN userAdminRule(adminKey.v[1])
               ELSE adminRule
  IN IF adminKey # Undefined
     THEN IF Len(permissions) > 0
          THEN IF built.err # NoError THEN built
               ELSE [err |-> NoError, rule |-> orReducer(<<built.rule, admin>>)]
          ELSE [err |-> NoError, rule |-> admin]
     ELSE built

\* the accessChecker middlewareFactory(...permissions) starts with
factoryChecker(adminKey, permissions, delimiter) ==
  LET built == ruleQueueBuilder(permissions, delimiter)
      admin == IF isFunction(adminKey) THEN userAdminRule(adminKey.v[1])
               ELSE adminRule
  IN IF adminKey # Undefined
     THEN IF Len(permissions) > 0
          THEN IF built.err # NoError THEN built
               ELSE [err |-> NoError, rule |-> orReducer(<<admin, built.rule>>)]
          ELSE [err |-> NoError, rule |-> admin]
     ELSE built

(* ------------------------- evaluation of a rule ------------------------ *)

\* JavaScript truthiness of the values rules return
Truthy(value) == value \in {"true", "1"}

Bool(b) == IF b THEN "true" ELSE "false"

IsCallable(rule) == rule.rule \in {"userRule", "userAdminRule"}

IsLeaf(rule) == rule.rule \in {"inGrantedRule", "adminRule", "userRule", "userAdminRule"}

\* a call of rule(grantedScope, helpers); index counts the operands it has
\* called so far
Frame(rule) == [rule |-> rule, index |-> 0, pending |-> FALSE]

Top(s) == s[Len(s)]

Pop(s) == SubSeq(s, 1, Len(s) - 1)

\* the position in accessChecker of the rule whose call is on top of s
PathOf(s) == [i \in 1..(Len(s) - 1) |-> s[i].index]

Called(s) == [event |-> "call", path |-> PathOf(s), rule |-> Top(s).rule.rule,
              value |-> "none"]

Returned(s, value) ==
  [event |-> "return", path |-> PathOf(s), rule |-> Top(s).rule.rule,
   value |-> value]

\* Runs the combinators on the stack s until a leaf rule has been called and
\* waits on top, or accessChecker itself has returned. value is what the
\* operand just called returned to the call on top, "none" when the top call
\* has not looked at it yet.
\*   andReducer: for (rule of rules) if (!(await rule(..))) return false;
\*               return true
\*   orReducer:  for (rule of rules) if (await rule(..)) return true;
\*               return false
\*   notRule:    !(await rule(..))
\* what a reducer does once the operand it called has returned value ("none":
\* no operand called yet), having called index of its n operands: return
\* "true" or "false", or call the "next" operand

\* an andReducer that looks only at its last operand
andReducerLast(value, index, n) ==
  IF index >= n
  THEN IF value # "none" /\ ~Truthy(value) THEN "false" ELSE "true"
  ELSE "next"

andReducerStep(value, index, n) ==
  IF value # "none" /\ ~Truthy(value) THEN "false"
  ELSE IF index >= n THEN "true"
  ELSE "next"

\* an orReducer that calls every operand before it answers
orReducerAll(value, index, n) ==
  IF index >= n
  THEN IF value # "none" /\ Truthy(value) THEN "true" ELSE "false"
  ELSE "next"

orReducerStep(value, index, n) ==
  IF value # "none" /\ Truthy(value) THEN "true"
  ELSE IF index >= n THEN "false"
  ELSE "next"

notRuleStep(value) ==
  IF value # "none" THEN Bool(~Truthy(value)) ELSE "next"

RECURSIVE Run(_, _, _)
Run(s, value, events) ==
  IF s = <<>> THEN [stack |-> s, value |-> value, log |-> events]
  ELSE
    LET top == Top(s)
        kind == top.rule.rule
        return(v) == Run(Pop(s), v, Append(events, Returned(s, v)))
        callNext ==
          LET s1 == [s EXCEPT ![Len(s)].index = top.index + 1]
              s2 == Append(s1, Frame(top.rule.rules[top.index + 1]))
          IN Run(s2, "none", Append(events, Called(s2)))
        n == Len(top.rule.rules)
        step == IF kind = "andReducer" THEN andReducerStep(value, top.index, n)
                ELSE IF kind = "orReducer" THEN orReducerStep(value, top.index, n)
                ELSE notRuleStep(value)
    IN
      IF IsLeaf(top.rule) THEN [stack |-> s, value |-> "none", log |-> events]
      ELSE IF step = "next" THEN callNext
      ELSE return(step)

(* ----------------------- construction of a middleware ------------------ *)

\* total number of arguments given to the factory and to .or/.not
MaxRules == 3

\* the options moduleArgv returns, as far as the rules use them: adminKey is
\* unset, a path or a callable; this release reads neither scopeRequired nor
\* credentialsRequired
Configs ==
  {[adminKey |-> k, claimDelimiter |-> ",", claimScopeDelimiter |-> ":",
    scopeRequired |-> Absent, credentialsRequired |-> Absent,
    requestProperty |-> Absent] :
     k \in {Undefined, Str(<<"a","d","m","i","n">>), Fn("isAdmin")}}

\* arguments the factory and .or/.not are called with
Permissions ==
  {Str(<<"a">>), Str(<<"b">>), Fn("f1"),
   Str(<<"c","o","n","s","t","r","u","c","t","o","r">>),
   Str(<<"a", ":", "*">>)}

RECURSIVE SumLen(_)
SumLen(calls) ==
  IF calls = <<>> THEN 0 ELSE Len(calls[1].permissions) + SumLen(Tail(calls))

\* argument lists still within MaxRules
ArgLists == SeqsUpTo(Permissions, MaxRules - SumLen(chain))

NoThrow == [method |-> "none", permissions |-> <<>>, err |-> NoError]

\* a call of the factory or of .or/.not threw: nothing is assigned and no
\* middleware is returned
Throw(method, permissions, err) ==
  /\ thrown' = [method |-> method, permissions |-> permissions, err |-> err]
  /\ phase' = "failed"
  /\ UNCHANGED <<config, accessChecker, chain>>

\* middlewareFactory(...permissions)
Factory(permissions) ==
  /\ phase = "new"
  /\ LET built == factoryChecker(config.adminKey, permissions,
                                 config.claimScopeDelimiter)
     IN IF built.err # NoError THEN Throw("factory", permissions, built.err)
        ELSE /\ accessChecker' = built.rule
             /\ chain' = <<[method |-> "factory", permissions |-> permissions,
                            before |-> NoRule]>>
             /\ phase' = "built"
             /\ UNCHANGED <<config, thrown>>
  /\ UNCHANGED <<pure, callVars>>

\* middleware.or(...permissions)
Or(permissions) ==
  /\ phase = "built"
  /\ pc = "idle"
  /\ parked.pc = "idle"
  /\ LET built == ruleQueueBuilder(permissions, config.claimScopeDelimiter)
     IN IF built.err # NoError THEN Throw("or", permissions, built.err)
        ELSE /\ accessChecker' = orReducer(<<accessChecker, built.rule>>)
             /\ chain' = Append(chain, [method |-> "or",
                                        permissions |-> permissions,
                                        before |-> accessChecker])
             /\ UNCHANGED <<config, phase, thrown>>
  /\ UNCHANGED <<pure, callVars>>

\* middleware.not(...permissions)
Not(permissions) ==
  /\ phase = "built"
  /\ pc = "idle"
  /\ parked.pc = "idle"
  /\ LET built == ruleQueueBuilder(permissions, config.claimScopeDelimiter)
     IN IF built.err # NoError THEN Throw("not", permissions, built.err)
        ELSE /\ accessChecker' =
                  andReducer(<<accessChecker, notRule(built.rule)>>)
             /\ chain' = Append(chain, [method |-> "not",
                                        permissions |-> permissions,
                                        before |-> accessChecker])
             /\ UNCHANGED <<config, phase, thrown>>
  /\ UNCHANGED <<pure, callVars>>

(* ------------------------------ a request ------------------------------ *)

\* the callables a middleware can hold
Callables == {"f1", "isAdmin"}

\* what a callable does when it is called: the value it returns, an error of
\* its own ("throw") or helpers.error(message) ("deny")
Outcomes == {"true", "false", "1", "throw", "deny"}

\* the token's granted permissions claim
ScopeClaims ==
  {Undefined, Str(<<"a">>), Str(<<"b">>), Str(<<"a", ",", "b">>),
   Str(<<"*">>), Num}

\* the token's admin claim; it is read only through an adminKey path
AdminClaims(adminKey) ==
  IF isString(adminKey) THEN {Undefined, True, One} ELSE {Undefined}

NoToken == [t |-> "undefined", scope |-> Undefined, admin |-> Undefined]

\* requests: no token at tokenKey, or a token with its claims
Requests(adminKey) ==
  {[token |-> NoToken]}
    \cup {[token |-> [t |-> "object", scope |-> s, admin |-> a]] :
            s \in ScopeClaims, a \in AdminClaims(adminKey)}

NoHelpers == [isAdmin |-> "undefined", originScope |-> Undefined,
              token |-> NoToken]

\* nothing at the request's requestProperty
NoCapability == [t |-> "undefined", isAdmin |-> FALSE, grantedScope |-> <<>>]

\* a call of the middleware that has not started
IdleCall ==
  [req |-> [token |-> NoToken], pc |-> "idle", stack |-> <<>>,
   helpers |-> NoHelpers, grantedScope |-> <<>>,
   returns |-> [c \in Callables |-> "none"], log |-> <<>>, result |-> "none",
   nextCalls |-> <<>>, rejection |-> NoError, attachment |-> NoCapability,
   handler |-> "none", seen |-> <<>>]

\* the call at hand
CurrentCall ==
  [req |-> req, pc |-> pc, stack |-> stack, helpers |-> helpers,
   grantedScope |-> grantedScope, returns |-> returns, log |-> log,
   result |-> result, nextCalls |-> nextCalls, rejection |-> rejection,
   attachment |-> attachment, handler |-> handler, seen |-> seen]

CallIdle ==
  /\ req = IdleCall.req
  /\ pc = IdleCall.pc
  /\ stack = IdleCall.stack
  /\ helpers = IdleCall.helpers
  /\ grantedScope = IdleCall.grantedScope
  /\ returns = IdleCall.returns
  /\ log = IdleCall.log
  /\ result = IdleCall.result
  /\ nextCalls = IdleCall.nextCalls
  /\ rejection = IdleCall.rejection
  /\ attachment = IdleCall.attachment
  /\ handler = IdleCall.handler
  /\ seen = IdleCall.seen
  /\ parked = IdleCall

\* a promisify() that passes the error on and lets it reject as well
throwToBoth(h, err, calls) ==
  [rejection |-> err,
   nextCalls |-> IF h = "promisify" THEN Append(calls, <<err>>) ELSE calls]

\* where an error thrown in the middleware ends: the middleware's promise
\* rejects with it; behind promisify() the rejection is caught and handed to
\* next, Promise.resolve().then(() => middleware(req, res, next)).catch(next)
throwTo(h, err, calls) ==
  IF h = "promisify"
  THEN [rejection |-> NoError, nextCalls |-> Append(calls, <<err>>)]
  ELSE [rejection |-> err, nextCalls |-> calls]

\* the middleware throws err
Reject(err, h) ==
  /\ rejection' = throwTo(h, err, nextCalls).rejection
  /\ nextCalls' = throwTo(h, err, nextCalls).nextCalls
  /\ pc' = "settled"
  /\ stack' = <<>>

\* the rule calls have run up to the next leaf, or accessChecker has returned
Continue(run) ==
  /\ stack' = run.stack
  /\ log' = run.log
  /\ result' = IF run.stack = <<>> THEN run.value ELSE "none"

\* isEmpty(value) of fetchGrantedScope
isEmpty(value) ==
  \/ value = Undefined
  \/ value = Str(<<>>)
  \/ value.t = "array" /\ value.v = <<>>

\* the claim the handler goes on with: get(token, scopeKey, undefined), and
\* in the release with scopeRequired get(token, scopeKey, undefined) || []
scopeOf(token, scopeRequired) ==
  IF scopeRequired = Absent \/ ToBoolean(token.scope) THEN token.scope
  ELSE Array(<<>>)

\* a handler that lets a request without a token through whatever
\* credentialsRequired says
missingTokenPasses(credentialsRequired) == [next |-> TRUE, err |-> NoError]

\* what the handler does when no token is found, by credentialsRequired:
\* reject with UnauthorizedError, or call next()
missingToken(credentialsRequired) ==
  IF credentialsRequired = True
  THEN [next |-> FALSE, err |-> UnauthorizedError]
  ELSE [next |-> TRUE, err |-> NoError]

\* a handler that refuses an empty claim whatever scopeRequired says
emptyScopeAlwaysRefused(scope, scopeRequired) == isEmpty(scope)

\* isEmpty(scope) && scopeRequired
emptyScopeRefused(scope, scopeRequired) ==
  isEmpty(scope) /\ scopeRequired = True

\* middleware(req, res, next) called as the handler h, up to the first rule
\* that is waited for
Call(r, h) ==
  /\ phase = "built"
  /\ pc = "idle"
  /\ req' = r
  /\ handler' = h
  /\ LET token == r.token
         scope == scopeOf(token, config.scopeRequired)
         parsed == parseGrantedScope(scope, config.claimDelimiter,
                                     claimCharset, config.claimScopeDelimiter)
         first == <<Frame(accessChecker)>>
         missing == IF config.credentialsRequired = Absent
                    THEN [next |-> FALSE,
                          err |-> InternalServerError("token_not_found")]
                    ELSE missingToken(config.credentialsRequired)
     IN IF token.t = "undefined"
        THEN /\ IF missing.next
                THEN /\ nextCalls' = Append(nextCalls, <<>>)
                     /\ pc' = "settled"
                     /\ UNCHANGED <<rejection, stack>>
                ELSE Reject(missing.err, h)
             /\ UNCHANGED <<helpers, grantedScope, log, result>>
        ELSE IF emptyScopeRefused(scope, config.scopeRequired)
        THEN /\ Reject(ForbiddenNoPermissions, h)
             /\ UNCHANGED <<helpers, grantedScope, log, result>>
        ELSE IF parsed.err # NoError
        THEN /\ Reject(parsed.err, h)
             /\ UNCHANGED <<helpers, grantedScope, log, result>>
        ELSE /\ grantedScope' = parsed.out
             /\ helpers' = [isAdmin |-> "undefined", originScope |-> scope,
                            token |-> token]
             /\ Continue(Run(first, "none", <<Called(first)>>))
             /\ pc' = "running"
             /\ UNCHANGED <<rejection, nextCalls>>
  /\ UNCHANGED <<pure, buildVars, returns, attachment, seen, parked>>

\* an admin rule that compares with == instead of ===
adminRuleValueLoose(token) ==
  token.admin \in {True, One, Str(<<"1">>), Array(<<One>>),
                   Array(<<Str(<<"1">>)>>)}

adminRuleValue(token) == token.admin = True \/ token.admin = One

\* a rule that does not wait for a callable returns: inGrantedRule or adminRule
Leaf ==
  /\ pc = "running"
  /\ stack # <<>>
  /\ LET rule == Top(stack).rule IN
       /\ rule.rule \in {"inGrantedRule", "adminRule"}
       /\ LET value == IF rule.rule = "inGrantedRule"
                       THEN Bool(inGrantedRule(rule.requested, grantedScope))
                       ELSE Bool(adminRuleValue(helpers.token))
          IN /\ helpers' = IF rule.rule = "adminRule"
                           THEN [helpers EXCEPT !.isAdmin = value]
                           ELSE helpers
             /\ Continue(Run(Pop(stack), value,
                             Append(log, Returned(stack, value))))
  /\ UNCHANGED <<pure, buildVars, req, pc, grantedScope, returns, nextCalls,
                 rejection, attachment, handler, seen, parked>>

\* a deepCopy that hands back the object it was given
deepCopyReturnsOrigin(origin) == [shared |-> TRUE, value |-> origin]

\* utils.deepCopy(origin): JSON.parse(JSON.stringify(origin)) of an object is
\* a new object with the same JSON content, shared with nobody; a primitive
\* is returned as it is and cannot be changed by whoever gets it
deepCopy(origin) == [shared |-> FALSE, value |-> origin]

\* what userRule and userAdminRule hand to the callable: a copy of
\* grantedScope, and a new helpers object with copies of originScope and token
userRuleArguments(scope, h) ==
  [grantedScope |-> deepCopy(scope),
   originScope |-> deepCopy(h.originScope),
   token |-> deepCopy(h.token),
   isAdmin |-> h.isAdmin]

\* what a predicate may do to its arguments: nothing, grantedScope.push(['b']),
\* helpers.originScope.push('b'), or helpers.token.scope = 'b' with
\* helpers.token.admin = true
Mutations == {"none", "grantedScope", "originScope", "token"}

\* a handler that turns whatever a rule throws into a plain ForbiddenError
thrownErrorForbidden(outcome) == ForbiddenError

\* what reaches the middleware's caller when a callable throws: the
\* ForbiddenError of helpers.error(message), or the callable's own error
thrownError(outcome) ==
  IF outcome = "deny" THEN ForbiddenErrorWith("denied") ELSE CallableError

\* the callable of a userRule or userAdminRule is handed its arguments, does
\* mutation to them, and returns or throws
Callable(outcome, mutation) ==
  /\ pc = "running"
  /\ stack # <<>>
  /\ LET rule == Top(stack).rule
         args == userRuleArguments(grantedScope, helpers)
         token == IF mutation = "token" /\ args.token.shared
                  THEN [helpers.token EXCEPT !.scope = Str(<<"b">>),
                                             !.admin = True]
                  ELSE helpers.token
         originScope ==
           IF /\ mutation = "originScope"
              /\ args.originScope.shared
              /\ helpers.originScope.t = "array"
           THEN Array(Append(helpers.originScope.v, Str(<<"b">>)))
           ELSE helpers.originScope
     IN
       /\ IsCallable(rule)
       /\ returns[rule.callable] \in {"none", outcome}
       /\ returns' = [returns EXCEPT ![rule.callable] = outcome]
       /\ seen' = Append(seen, [grantedScope |-> args.grantedScope.value,
                                originScope |-> args.originScope.value,
                                token |-> args.token.value,
                                isAdmin |-> args.isAdmin,
                                mutation |-> mutation])
       /\ grantedScope' = IF mutation = "grantedScope"
                             /\ args.grantedScope.shared
                          THEN Append(grantedScope, <<"b">>)
                          ELSE grantedScope
       /\ req' = IF req.token = helpers.token
                 THEN [req EXCEPT !.token = token] ELSE req
       /\ IF outcome \in {"throw", "deny"}
          THEN /\ Reject(thrownError(outcome), handler)
               /\ log' = Append(log, [event |-> "throw", path |-> PathOf(stack),
                                      rule |-> rule.rule, value |-> outcome])
               /\ helpers' = [helpers EXCEPT !.token = token,
                                             !.originScope = originScope]
               /\ UNCHANGED result
          ELSE /\ helpers' = [helpers EXCEPT
                               !.token = token,
                               !.originScope = originScope,
                               !.isAdmin = IF rule.rule = "userAdminRule"
                                           THEN outcome ELSE @]
               /\ Continue(Run(Pop(stack), outcome,
                               Append(log, Returned(stack, outcome))))
               /\ UNCHANGED <<pc, rejection, nextCalls>>
  /\ UNCHANGED <<pure, buildVars, attachment, handler, parked>>

\* isAdmin() of the capability object
isAdmin(capability) == capability.isAdmin

\* hasPermission(permission) of the capability object, for a permission
\* string
hasPermission(capability, permission, claimScopeDelimiter) ==
  inGrantedRule(Split(permission.v, claimScopeDelimiter),
                capability.grantedScope)

\* a capability object that says admin whenever the check passed
capabilityAlwaysAdmin(scope, h) ==
  [t |-> "object", isAdmin |-> TRUE, grantedScope |-> scope]

\* the capability object of a call: bound to its granted permissions and to
\* the outcome of its admin check
capability(scope, h) ==
  [t |-> "object", isAdmin |-> Truthy(h.isAdmin), grantedScope |-> scope]

\* what is at the request's requestProperty after the check passed
attach(requestProperty, current, object) ==
  IF requestProperty = Absent THEN current ELSE object

\* a handler that calls next() before it looks at the result
SettleNextFirst ==
  /\ pc = "running"
  /\ stack = <<>>
  /\ nextCalls' = Append(nextCalls, <<>>)
  /\ rejection' = IF Truthy(result) THEN rejection ELSE ForbiddenError
  /\ attachment' = IF Truthy(result)
                   THEN attach(config.requestProperty, attachment,
                               capability(grantedScope, helpers))
                   ELSE attachment
  /\ pc' = "settled"
  /\ UNCHANGED <<pure, buildVars, req, stack, helpers, grantedScope, returns,
                 log, result, handler, seen, parked>>

\* if (await accessChecker(grantedScope, helpers)) next()
\* else throw new ForbiddenError()
Settle ==
  /\ pc = "running"
  /\ stack = <<>>
  /\ IF Truthy(result)
     THEN /\ nextCalls' = Append(nextCalls, <<>>)
          /\ attachment' = attach(config.requestProperty, attachment,
                                  capability(grantedScope, helpers))
          /\ UNCHANGED rejection
     ELSE /\ rejection' = throwTo(handler, ForbiddenError, nextCalls).rejection
          /\ nextCalls' = throwTo(handler, ForbiddenError, nextCalls).nextCalls
          /\ UNCHANGED attachment
  /\ pc' = "settled"
  /\ UNCHANGED <<pure, buildVars, req, stack, helpers, grantedScope, returns,
                 log, result, handler, seen, parked>>

\* a runtime in which the calls of a middleware share one helpers object
SwitchSharesHelpers ==
  /\ phase = "built"
  /\ parked' = CurrentCall
  /\ req' = parked.req
  /\ pc' = parked.pc
  /\ stack' = parked.stack
  /\ grantedScope' = parked.grantedScope
  /\ returns' = parked.returns
  /\ log' = parked.log
  /\ result' = parked.result
  /\ nextCalls' = parked.nextCalls
  /\ rejection' = parked.rejection
  /\ attachment' = parked.attachment
  /\ handler' = parked.handler
  /\ seen' = parked.seen
  /\ UNCHANGED <<pure, buildVars, helpers>>

\* the call at hand waits (await) or has not started or has ended, and the
\* other call of the middleware goes on: each call has its own req, next,
\* token, scope, grantedScope and helpers, and they share accessChecker
Switch ==
  /\ phase = "built"
  /\ parked' = CurrentCall
  /\ req' = parked.req
  /\ pc' = parked.pc
  /\ stack' = parked.stack
  /\ helpers' = parked.helpers
  /\ grantedScope' = parked.grantedScope
  /\ returns' = parked.returns
  /\ log' = parked.log
  /\ result' = parked.result
  /\ nextCalls' = parked.nextCalls
  /\ rejection' = parked.rejection
  /\ attachment' = parked.attachment
  /\ handler' = parked.handler
  /\ seen' = parked.seen
  /\ UNCHANGED <<pure, buildVars>>

Init ==
  /\ pure = NoPure
  /\ config \in Configs
  /\ phase = "new"
  /\ accessChecker = NoRule
  /\ chain = <<>>
  /\ thrown = NoThrow
  /\ CallIdle

Next ==
  \/ \E permissions \in ArgLists : Factory(permissions)
  \/ \E permissions \in ArgLists : Or(permissions)
  \/ \E permissions \in ArgLists : Not(permissions)
  \/ \E r \in Requests(config.adminKey) : Call(r, "middleware")
  \/ Leaf
  \/ \E outcome \in Outcomes : Callable(outcome, "none")
  \/ Settle

Spec == Init /\ [][Next]_vars

(* ------------------- pure functions applied to inputs ------------------ *)

\* no middleware is built and no request handled while a library function
\* is applied
MachineOff ==
  /\ config = [adminKey |-> Undefined, claimDelimiter |-> ",",
               claimScopeDelimiter |-> ":", scopeRequired |-> Absent,
               credentialsRequired |-> Absent,
    requestProperty |-> Absent]
  /\ phase = "off"
  /\ accessChecker = NoRule
  /\ chain = <<>>
  /\ thrown = NoThrow
  /\ CallIdle

\* characters drawn for the strings given to the parser
ArgvChars == {"a", "Z", "0", "_", ":", ",", "*", "-"}

\* scope delimiters drawn for the parser
ArgvDelimiters == {":", "-"}

\* short argument lists over a few arguments of every kind
ArgvSmall ==
  {Str(<<"a">>), Str(<<"a", ":", "Z">>), Str(<<"a", ":", "*">>),
   Str(<<"c","o","n","s","t","r","u","c","t","o","r">>),
   Fn("f1"), Fn("f2"), Num}

\* argument lists drawn for the parser: one string of every shape, or a short
\* list of mixed arguments
ArgvInputs ==
  {<<Str(s)>> : s \in SeqsUpTo(ArgvChars, MaxStrLen)}
    \cup SeqsUpTo(ArgvSmall, MaxArgvLen)

InitArgv ==
  /\ MachineOff
  /\ \E claims \in ArgvInputs, delimiter \in ArgvDelimiters :
       pure = [fn |-> "factoryArgv", claims |-> claims, delimiter |-> delimiter,
               done |-> FALSE, out |-> [err |-> NoError, out |-> <<>>]]

\* one call factoryArgv(claims, claimCharset, claimScopeDelimiter)
ApplyArgv ==
  /\ pure.fn = "factoryArgv"
  /\ ~pure.done
  /\ pure' = [pure EXCEPT !.done = TRUE,
                          !.out = factoryArgv(pure.claims, claimCharset,
                                              pure.delimiter)]
  /\ UNCHANGED <<buildVars, callVars>>

NextArgv == ApplyArgv

SpecArgv == InitArgv /\ [][NextArgv]_vars

InitMatch ==
  /\ MachineOff
  /\ \E r \in RequestedSeqs, G \in SeqsUpTo(GrantedSeqs, MaxGranted) :
       pure = [fn |-> "inGrantedRule", requested |-> r, grantedScope |-> G,
               done |-> FALSE, out |-> FALSE]

\* one call inGrantedRule(requested)(grantedScope)
ApplyMatch ==
  /\ pure.fn = "inGrantedRule"
  /\ ~pure.done
  /\ pure' = [pure EXCEPT !.done = TRUE,
                          !.out = inGrantedRule(pure.requested, pure.grantedScope)]
  /\ UNCHANGED <<buildVars, callVars>>

NextMatch == ApplyMatch

SpecMatch == InitMatch /\ [][NextMatch]_vars

(* ------------------------------ claims --------------------------------- *)

MatchDone == pure.fn = "inGrantedRule" /\ pure.done

\* C1: a granted sequence longer than the requested one satisfies it iff it
\* equals the requested sequence position by position over the requested
\* length (a '*' there does not count) and every further position is '*'.
C1_GrantedLonger ==
  (MatchDone /\ Len(pure.grantedScope) = 1
     /\ Len(pure.grantedScope[1]) > Len(pure.requested)) =>
    LET g == pure.grantedScope[1]
        r == pure.requested
    IN pure.out = ( /\ \A i \in 1..Len(r) : g[i] = r[i]
                    /\ \A i \in (Len(r) + 1)..Len(g) : g[i] = Star )

\* granted 'a:*' has satisfied requested 'a'
C1_Witness ==
  /\ MatchDone
  /\ pure.requested = <<(<<"a">>)>>
  /\ pure.grantedScope = << <<(<<"a">>), Star>> >>
  /\ pure.out

\* C2: a granted sequence as long as the requested one satisfies it iff at
\* every position the two are equal or the granted one is '*'.
C2_EqualLength ==
  (MatchDone /\ Len(pure.grantedScope) = 1
     /\ Len(pure.grantedScope[1]) = Len(pure.requested)) =>
    LET g == pure.grantedScope[1]
        r == pure.requested
    IN pure.out = (\A i \in 1..Len(r) : g[i] = r[i] \/ g[i] = Star)

\* granted 'a:*' has satisfied requested 'a:b'
C2_Witness ==
  /\ MatchDone
  /\ pure.requested = <<(<<"a">>), (<<"b">>)>>
  /\ pure.grantedScope = << <<(<<"a">>), Star>> >>
  /\ pure.out

\* C3: a granted scope whose members are all shorter than the requested
\* sequence never satisfies it.
C3_ShorterNeverMatches ==
  (MatchDone
     /\ \A k \in 1..Len(pure.grantedScope) :
          Len(pure.grantedScope[k]) < Len(pure.requested)) =>
    ~pure.out

\* granted 'a' has been tried against requested 'a:b' and refused
C3_Witness ==
  /\ MatchDone
  /\ pure.requested = <<(<<"a">>), (<<"b">>)>>
  /\ pure.grantedScope = << <<(<<"a">>)>> >>
  /\ ~pure.out

ArgvDone == pure.fn = "factoryArgv" /\ pure.done

\* one or more non-empty runs of charset characters separated by single
\* scope delimiters
WellFormedRequested(chars, delimiter) ==
  /\ Len(chars) > 0
  /\ \A i \in 1..Len(chars) : chars[i] \in claimCharset \/ chars[i] = delimiter
  /\ chars[1] # delimiter
  /\ chars[Len(chars)] # delimiter
  /\ \A i \in 1..(Len(chars) - 1) : ~(chars[i] = delimiter /\ chars[i + 1] = delimiter)

\* C9: a call whose arguments are strings and functions throws
\* ExpressJwtScopeError invalid_argument iff one of its strings is not a
\* sequence of non-empty charset runs separated by single scope delimiters;
\* it then returns nothing.
C9_RequestedGrammar ==
  (ArgvDone /\ Len(pure.claims) > 0
     /\ \A i \in 1..Len(pure.claims) :
          isString(pure.claims[i]) \/ isFunction(pure.claims[i])) =>
    LET bad == \E i \in 1..Len(pure.claims) :
                 /\ isString(pure.claims[i])
                 /\ ~WellFormedRequested(pure.claims[i].v, pure.delimiter)
    IN /\ bad <=> pure.out.err = ExpressJwtScopeError("invalid_argument")
       /\ ~bad <=> pure.out.err = NoError
       /\ bad => pure.out.out = <<>>

\* the requested string 'a:*' has been refused with invalid_argument
C9_Witness ==
  /\ ArgvDone
  /\ pure.claims = <<Str(<<"a", ":", "*">>)>>
  /\ pure.delimiter = ":"
  /\ pure.out.err = ExpressJwtScopeError("invalid_argument")

(* ------------------- claims about the rule combinators ----------------- *)

Ones(n) == [i \in 1..n |-> 1]

IsPrefix(p, q) == Len(p) <= Len(q) /\ SubSeq(q, 1, Len(p)) = p

RECURSIVE RuleAt(_, _)
RuleAt(rule, path) ==
  IF path = <<>> THEN rule ELSE RuleAt(rule.rules[path[1]], Tail(path))

\* a value that lets a request through
Passes(value) == value \in {"true", "1"}

\* the token was found and its granted claim parsed
TokenRead ==
  /\ req.token.t = "object"
  /\ parseGrantedScope(req.token.scope, config.claimDelimiter, claimCharset,
                       config.claimScopeDelimiter).err = NoError

NextCalledOnce == nextCalls = << <<>> >>

Forbidden ==
  /\ rejection.name = "ForbiddenError"
  /\ rejection.status = 403
  /\ rejection.expose

\* where the rule built from the factory's arguments sits in accessChecker:
\* under one orReducer/andReducer per .or/.not call, and behind the admin rule
FactoryGroupPath ==
  Ones(Len(chain) - 1)
    \o (IF config.adminKey # Undefined THEN <<2>> ELSE <<>>)

\* C4: the rules of a middleware built from several arguments are called in
\* the order of the arguments, each only after the one before it returned a
\* truthy value; once one returns a falsy value no rule after it is called,
\* and the middleware (without .or/.not) resolves false, rejects with
\* ForbiddenError and does not call next.
C4_AndShortCircuit ==
  (phase = "built" /\ Len(chain[1].permissions) >= 2
     /\ RuleAt(accessChecker, FactoryGroupPath).rule = "andReducer") =>
    LET g == FactoryGroupPath
        operand(e) == Len(e.path) = Len(g) + 1 /\ IsPrefix(g, e.path)
        position(e) == e.path[Len(e.path)]
    IN \A i \in 1..Len(log) :
         /\ (log[i].event = "call" /\ operand(log[i]) /\ position(log[i]) > 1) =>
              \E h \in 1..(i - 1) :
                /\ log[h].event = "return"
                /\ log[h].path = g \o <<position(log[i]) - 1>>
                /\ Passes(log[h].value)
         /\ (log[i].event = "return" /\ operand(log[i])
               /\ ~Passes(log[i].value)) =>
              /\ \A h \in (i + 1)..Len(log) :
                   ~(IsPrefix(g, log[h].path) /\ Len(log[h].path) > Len(g))
              /\ (Len(chain) = 1 /\ pc = "settled") =>
                   /\ result = "false"
                   /\ rejection = ForbiddenError
                   /\ nextCalls = <<>>

\* the middleware built from (f1, 'a') has met a falsy f1 with 'a' granted
C4_Witness ==
  /\ config.adminKey = Undefined
  /\ Len(chain) = 1
  /\ chain[1].permissions = <<Fn("f1"), Str(<<"a">>)>>
  /\ pc = "settled"
  /\ returns["f1"] = "false"
  /\ grantedScope = << <<(<<"a">>)>> >>
  /\ rejection = ForbiddenError
  /\ nextCalls = <<>>

\* where the j-th alternative of m(a).or(b1)...or(bn) sits in accessChecker,
\* the factory's expression being alternative 0
AltPath(j) ==
  IF j = 0 THEN Ones(Len(chain) - 1) ELSE Ones(Len(chain) - 1 - j) \o <<2>>

OrChain ==
  /\ phase = "built"
  /\ Len(chain) >= 2
  /\ \A i \in 2..Len(chain) : chain[i].method = "or"

\* C5: in a chain m(a).or(b1)...or(bn) an alternative is called only after
\* the one added before it returned a falsy value; once an alternative
\* returns a truthy value nothing of the alternatives added after it is
\* called, and the middleware calls next.
C5_OrShortCircuit ==
  OrChain =>
    \A i \in 1..Len(log), j \in 0..(Len(chain) - 1) :
      /\ (log[i].event = "call" /\ log[i].path = AltPath(j) /\ j > 0) =>
           \E h \in 1..(i - 1) :
             /\ log[h].event = "return"
             /\ log[h].path = AltPath(j - 1)
             /\ ~Passes(log[h].value)
      /\ (log[i].event = "return" /\ log[i].path = AltPath(j)
            /\ Passes(log[i].value)) =>
           /\ \A h \in 1..Len(log), k \in (j + 1)..(Len(chain) - 1) :
                ~IsPrefix(AltPath(k), log[h].path)
           /\ pc = "settled" => (NextCalledOnce /\ rejection = NoError)

\* m(x).or(y).or(z): x was falsy, y truthy, and z was not called
C5_Witness ==
  /\ OrChain
  /\ Len(chain) = 3
  /\ pc = "settled"
  /\ NextCalledOnce
  /\ \E i \in 1..Len(log) :
       /\ log[i].event = "return"
       /\ log[i].path = AltPath(1)
       /\ Passes(log[i].value)

\* the request went through the rules and no callable threw
Evaluated ==
  /\ pc = "settled"
  /\ TokenRead
  /\ \A i \in 1..Len(log) : log[i].event # "throw"

\* the requested permission p passes: a permission string is satisfied by the
\* granted permissions, a callable returned a truthy value
PermissionPasses(p) ==
  IF isFunction(p) THEN Passes(returns[p.v[1]])
  ELSE inGrantedRule(Split(p.v, config.claimScopeDelimiter), grantedScope)

AllPass(permissions) ==
  \A i \in 1..Len(permissions) : PermissionPasses(permissions[i])

\* the expression a rule stands for, read as a formula
RECURSIVE Holds(_)
Holds(rule) ==
  IF rule.rule = "inGrantedRule" THEN inGrantedRule(rule.requested, grantedScope)
  ELSE IF rule.rule = "adminRule" THEN adminRuleValue(req.token)
  ELSE IF IsCallable(rule) THEN Passes(returns[rule.callable])
  ELSE IF rule.rule = "andReducer"
  THEN \A i \in 1..Len(rule.rules) : Holds(rule.rules[i])
  ELSE IF rule.rule = "orReducer"
  THEN \E i \in 1..Len(rule.rules) : Holds(rule.rules[i])
  ELSE ~Holds(rule.rules[1])

LastCall == chain[Len(chain)]

\* C6: after middleware.not(p1..pn) access is granted iff the expression held
\* before the call passes and the conjunction p1 AND ... AND pn does not; the
\* negated group is called only after the previous expression passed.
C6_NotSemantics ==
  (Evaluated /\ Len(chain) >= 2 /\ LastCall.method = "not") =>
    /\ NextCalledOnce <=>
         (Holds(LastCall.before) /\ ~AllPass(LastCall.permissions))
    /\ \A i \in 1..Len(log) :
         IsPrefix(<<2>>, log[i].path) =>
           \E h \in 1..(i - 1) :
             /\ log[h].event = "return"
             /\ log[h].path = <<1>>
             /\ Passes(log[h].value)

\* C7: after middleware.or(p1..pn) access is granted iff the expression held
\* before the call passes or all of p1..pn pass, the expression held before
\* being everything the earlier calls built.
C7_OrSemantics ==
  (Evaluated /\ Len(chain) >= 2 /\ LastCall.method = "or") =>
    NextCalledOnce <=>
      (Holds(LastCall.before) \/ AllPass(LastCall.permissions))

\* C8 as stated: with a token and a well-formed granted claim the call ends
\* in exactly one of two ways, next called once without a rejection after a
\* truthy result, or a ForbiddenError without next after a falsy one.
C8_TwoOutcomes ==
  (pc = "settled" /\ TokenRead) =>
    LET granted == NextCalledOnce /\ rejection = NoError /\ Passes(result)
        denied == Forbidden /\ nextCalls = <<>> /\ ~Passes(result)
    IN (granted \/ denied) /\ ~(granted /\ denied)

\* C8, amended: with a token and a well-formed granted claim the call ends in
\* exactly one of three ways: a rule threw, and the call rejects with what it
\* threw and next is not called; the expression is truthy, and next is called
\* once with no arguments and the call does not reject; the expression is
\* falsy, and the call rejects with ForbiddenError (403, exposed) and next is
\* not called. Before the call has settled next has not been called.
C8_Outcome ==
  /\ pc # "settled" => (nextCalls = <<>> /\ rejection = NoError)
  /\ (pc = "settled" /\ TokenRead) =>
       IF \E i \in 1..Len(log) : log[i].event = "throw"
       THEN /\ nextCalls = <<>>
            /\ rejection \in {CallableError, ForbiddenErrorWith("denied")}
            /\ result = "none"
       ELSE IF Passes(result)
       THEN NextCalledOnce /\ rejection = NoError
       ELSE /\ rejection = ForbiddenError
            /\ Forbidden
            /\ nextCalls = <<>>

\* a falsy expression has been refused with ForbiddenError
C8_Witness ==
  /\ pc = "settled"
  /\ TokenRead
  /\ result = "false"
  /\ rejection = ForbiddenError
  /\ nextCalls = <<>>

\* C10: the factory called with no arguments throws ExpressJwtScopeError
\* empty_argument_list when no admin key is configured and returns no
\* middleware; with an admin key it returns a middleware whose accessChecker
\* is the admin rule alone.
C10_NoArguments ==
  /\ (thrown.method = "factory" /\ thrown.permissions = <<>>) =>
       /\ config.adminKey = Undefined
       /\ thrown.err = ExpressJwtScopeError("empty_argument_list")
       /\ phase = "failed"
       /\ accessChecker = NoRule
  /\ (phase = "built" /\ chain[1].permissions = <<>>) =>
       /\ config.adminKey # Undefined
       /\ Len(chain) = 1 =>
            accessChecker = IF isFunction(config.adminKey)
                            THEN userAdminRule(config.adminKey.v[1])
                            ELSE adminRule

\* a middleware built with an admin key and no arguments has let an admin in
C10_Witness ==
  /\ phase = "built"
  /\ chain[1].permissions = <<>>
  /\ accessChecker = adminRule
  /\ pc = "settled"
  /\ req.token.admin = True
  /\ NextCalledOnce

(* -------------------- claims about the two parsers --------------------- *)

\* the indexes of the arguments dedup by exact string equality retains:
\* every function, and every string not equal to an earlier argument
RetainedIndexes(claims) ==
  SelectSeq([i \in 1..Len(claims) |-> i],
            LAMBDA i : isFunction(claims[i])
                         \/ \A h \in 1..(i - 1) : claims[h] # claims[i])

\* C11: factoryArgv returns, in the order of the arguments, every function
\* argument as it is, once per occurrence, and every distinct permission
\* string once, split, at the place of its first occurrence.
C11_Deduplication ==
  (ArgvDone /\ pure.out.err = NoError) =>
    LET claims == pure.claims
        kept == RetainedIndexes(claims)
    IN pure.out.out =
         [k \in 1..Len(kept) |->
            IF isFunction(claims[kept[k]]) THEN claims[kept[k]]
            ELSE Arr(Split(claims[kept[k]].v, pure.delimiter))]

(* --------------- parseGrantedScope applied to claim values ------------- *)

\* the longest claim string given to the parser
MaxScopeLen == 5

\* the longest claim array given to the parser
MaxScopeItems == 2

\* characters drawn for the claim strings
ScopeChars == {"a", ":", ",", "*", " "}

\* elements drawn for the claim arrays
ScopeItems ==
  {Str(<<"a">>), Str(<<"a", ":", "*">>), Str(<<"*">>), Str(<<>>),
   Str(<<" ", "a">>), Num}

\* claim delimiters drawn for the parser
ScopeDelimiters == {",", " "}

\* claim values drawn for the parser: undefined, a number, every short string
\* and every short array
ScopeInputs ==
  {Undefined, Num}
    \cup {Str(s) : s \in SeqsUpTo(ScopeChars, MaxScopeLen)}
    \cup {Array(a) : a \in SeqsUpTo(ScopeItems, MaxScopeItems)}

InitGranted ==
  /\ MachineOff
  /\ \E scope \in ScopeInputs, claimDelimiter \in ScopeDelimiters :
       pure = [fn |-> "parseGrantedScope", scope |-> scope,
               claimDelimiter |-> claimDelimiter, done |-> FALSE,
               out |-> [err |-> NoError, out |-> <<>>]]

\* one call parseGrantedScope(scope, claimDelimiter, claimCharset, ':')
ApplyGranted ==
  /\ pure.fn = "parseGrantedScope"
  /\ ~pure.done
  /\ pure' = [pure EXCEPT !.done = TRUE,
                          !.out = parseGrantedScope(pure.scope,
                                                    pure.claimDelimiter,
                                                    claimCharset, ":")]
  /\ UNCHANGED <<buildVars, callVars>>

NextGranted == ApplyGranted

SpecGranted == InitGranted /\ [][NextGranted]_vars

GrantedDone == pure.fn = "parseGrantedScope" /\ pure.done

\* a charset-only name followed by scope-delimited qualifiers, each a charset
\* run or exactly '*'
WellFormedGranted(chars, delimiter) ==
  /\ Len(chars) > 0
  /\ \A i \in 1..Len(chars) : chars[i] \in claimCharset \cup {delimiter, "*"}
  /\ chars[1] \in claimCharset
  /\ chars[Len(chars)] # delimiter
  /\ \A i \in 1..(Len(chars) - 1) :
       ~(chars[i] = delimiter /\ chars[i + 1] = delimiter)
  /\ \A i \in 2..Len(chars) :
       chars[i] = "*" =>
         /\ chars[i - 1] = delimiter
         /\ i < Len(chars) => chars[i + 1] = delimiter

\* the elements of a claim value: those of the array, or the pieces of the
\* non-empty string between claim delimiters
ClaimElements(scope, claimDelimiter) ==
  IF scope.t = "array" THEN scope.v
  ELSE IF scope.t = "string" /\ scope.v # <<>>
  THEN LET pieces == Split(scope.v, claimDelimiter)
       IN [i \in 1..Len(pieces) |-> Str(pieces[i])]
  ELSE <<>>

\* C12: parseGrantedScope returns a set iff the claim is undefined, a string
\* or an array and every element is a well-formed string, and the set then
\* holds every element split at the scope delimiter; otherwise it throws
\* InternalServerError and returns nothing, whatever the other elements are.
C12_AllOrNothing ==
  GrantedDone =>
    LET elements == ClaimElements(pure.scope, pure.claimDelimiter)
        good == /\ pure.scope.t \in {"undefined", "string", "array"}
                /\ \A i \in 1..Len(elements) :
                     /\ isString(elements[i])
                     /\ WellFormedGranted(elements[i].v, ":")
    IN IF good
       THEN /\ pure.out.err = NoError
            /\ pure.out.out =
                 [i \in 1..Len(elements) |-> Split(elements[i].v, ":")]
       ELSE /\ pure.out.err.name = "InternalServerError"
            /\ pure.out.err.status = 500
            /\ ~pure.out.err.expose
            /\ pure.out.out = <<>>

\* the array ['a', '*'] has been refused although 'a' is well formed
C12_Witness ==
  /\ GrantedDone
  /\ pure.scope = Array(<<Str(<<"a">>), Str(<<"*">>)>>)
  /\ pure.out = [err |-> InternalServerError("unsupported_permission_value"),
                 out |-> <<>>]

\* C13: parseGrantedScope returns the empty set, without throwing, for the
\* claim values undefined, '' and [].
C13_EmptyClaim ==
  (GrantedDone /\ pure.scope \in {Undefined, Str(<<>>), Array(<<>>)}) =>
    pure.out = [err |-> NoError, out |-> <<>>]

\* the empty string has been parsed to the empty set
C13_Witness ==
  /\ GrantedDone
  /\ pure.scope = Str(<<>>)
  /\ pure.out = [err |-> NoError, out |-> <<>>]

(* ------------------ claims about one middleware call ------------------- *)

\* the granted claim of the request has the wrong type or an element that
\* breaks the grammar
BadClaim ==
  LET scope == req.token.scope
      elements == ClaimElements(scope, config.claimDelimiter)
  IN \/ scope.t \notin {"undefined", "string", "array"}
     \/ \E i \in 1..Len(elements) :
          \/ ~isString(elements[i])
          \/ ~WellFormedGranted(elements[i].v, config.claimScopeDelimiter)

DelimiterValues ==
  {Undefined, Null, Zero, Str(<<>>), Str(<<",">>), Str(<<":">>), Str(<<" ">>),
   Str(<<"_">>), Str(<<"*">>), Str(<<"-">>), Str(<<"a">>),
   Str(<<GraveAccent>>), Str(<<":", ":">>)}

\* options drawn for moduleArgv
OptionInputs ==
  [adminClaimEnabled : {Undefined, True},
   claimDelimiter : DelimiterValues,
   claimScopeDelimiter : DelimiterValues,
   scopeRequired : {Undefined, True, False}]

InitConfig ==
  /\ MachineOff
  /\ \E options \in OptionInputs :
       pure = [fn |-> "moduleArgv", options |-> options, done |-> FALSE,
               out |-> [err |-> NoError, out |-> NoConfig]]

\* one call moduleArgv(options)
ApplyConfig ==
  /\ pure.fn = "moduleArgv"
  /\ ~pure.done
  /\ pure' = [pure EXCEPT !.done = TRUE, !.out = moduleArgv(pure.options)]
  /\ UNCHANGED <<buildVars, callVars>>

NextConfig == ApplyConfig

SpecConfig == InitConfig /\ [][NextConfig]_vars

ConfigDone == pure.fn = "moduleArgv" /\ pure.done

\* the punctuation characters a delimiter may be
Punctuation ==
  {"-", "!", "\"", "#", "$", "%", "&", "'", "(", ")", "+", ",", ".", "/",
   ":", ";", "<", "=", ">", "?", "@", "[", "]", "^", GraveAccent, "{", "|",
   "}", "~"}

\* a string of length exactly 1 drawn from the punctuation set, or from the
\* punctuation set and the space
OneOf(value, allowed) ==
  value.t = "string" /\ Len(value.v) = 1 /\ value.v[1] \in allowed

\* C15: moduleArgv throws ExpressJwtScopeError whenever a supplied
\* claimDelimiter is not one punctuation character or space, or a supplied
\* claimScopeDelimiter is not one punctuation character; no such value is
\* replaced by the default.
C15_DelimiterValidation ==
  ConfigDone =>
    LET options == pure.options
        broken ==
          \/ /\ options.claimDelimiter # Undefined
             /\ ~OneOf(options.claimDelimiter, Punctuation \cup {" "})
          \/ /\ options.claimScopeDelimiter # Undefined
             /\ ~OneOf(options.claimScopeDelimiter, Punctuation)
    IN broken => pure.out.err.name = "ExpressJwtScopeError"

\* C16: a configuration moduleArgv returns has two different delimiters,
\* each the supplied one or its default (',' and ':'); when a supplied
\* delimiter equals the other, supplied or default, moduleArgv throws
\* ExpressJwtScopeError invalid_configuration instead of returning.
C16_DelimitersDiffer ==
  ConfigDone =>
    LET options == pure.options
        claimDelimiter == IF OneOf(options.claimDelimiter, Punctuation \cup {" "})
                          THEN options.claimDelimiter.v[1] ELSE ","
        claimScopeDelimiter == IF OneOf(options.claimScopeDelimiter, Punctuation)
                               THEN options.claimScopeDelimiter.v[1] ELSE ":"
    IN /\ pure.out.err = NoError =>
            /\ pure.out.out.claimDelimiter # pure.out.out.claimScopeDelimiter
            /\ pure.out.out.claimDelimiter = claimDelimiter
            /\ pure.out.out.claimScopeDelimiter = claimScopeDelimiter
       /\ (/\ options.claimDelimiter
                \in {Undefined, Str(<<claimDelimiter>>)}
           /\ options.claimScopeDelimiter
                \in {Undefined, Str(<<claimScopeDelimiter>>)}
           /\ claimDelimiter = claimScopeDelimiter) =>
            pure.out = [err |-> ExpressJwtScopeError("invalid_configuration"),
                        out |-> NoConfig]

\* only claimDelimiter was supplied, as ':', and met the default scope
\* delimiter
C16_Witness ==
  /\ ConfigDone
  /\ pure.options.claimDelimiter = Str(<<":">>)
  /\ pure.options.claimScopeDelimiter = Undefined
  /\ pure.out.err = ExpressJwtScopeError("invalid_configuration")

(* ------------------- adminRule applied to admin claims ----------------- *)

\* values drawn for the claim found at the admin path
AdminValues ==
  {Undefined, Null, True, False, One, Zero, Str(<<"t", "r", "u", "e">>),
   Str(<<"1">>), Str(<<>>), Array(<<>>), Array(<<One>>),
   Array(<<Str(<<"1">>)>>)}

InitAdmin ==
  /\ MachineOff
  /\ \E admin \in AdminValues, scope \in ScopeClaims :
       pure = [fn |-> "adminRule",
               token |-> [t |-> "object", scope |-> scope, admin |-> admin],
               done |-> FALSE, out |-> FALSE, isAdmin |-> "undefined"]

\* one call adminRule(path)(grantedScope, helpers) with helpers.token = token
ApplyAdmin ==
  /\ pure.fn = "adminRule"
  /\ ~pure.done
  /\ pure' = [pure EXCEPT !.done = TRUE,
                          !.out = adminRuleValue(pure.token),
                          !.isAdmin = Bool(adminRuleValue(pure.token))]
  /\ UNCHANGED <<buildVars, callVars>>

NextAdmin == ApplyAdmin

SpecAdmin == InitAdmin /\ [][NextAdmin]_vars

AdminDone == pure.fn = "adminRule" /\ pure.done

\* C17: the admin check by path passes iff the value at the admin path is the
\* boolean true or the number 1; undefined, null, false, 0, 'true', '1', ''
\* and objects count as not admin. helpers.isAdmin is set to the outcome.
C17_AdminClaim ==
  AdminDone =>
    LET admin == pure.token.admin
        exactly == \/ admin.t = "boolean" /\ admin.v = <<"true">>
                   \/ admin.t = "number" /\ admin.v = <<"1">>
    IN /\ pure.out <=> exactly
       /\ pure.isAdmin = IF exactly THEN "true" ELSE "false"

\* the string '1' at the admin path has been taken for not admin
C17_Witness ==
  /\ AdminDone
  /\ pure.token.admin = Str(<<"1">>)
  /\ ~pure.out
  /\ pure.isAdmin = "false"

(* ---------------------- claims about the admin check ------------------- *)

AdminRules == {"adminRule", "userAdminRule"}

\* where the admin rule sits in accessChecker: first in the factory's
\* orReducer, or alone when the factory had no arguments
AdminPath ==
  Ones(Len(chain) - 1)
    \o (IF chain[1].permissions # <<>> THEN <<1>> ELSE <<>>)

\* the admin check has returned value
AdminReturned(h, value) ==
  /\ log[h].event = "return"
  /\ log[h].path = AdminPath
  /\ log[h].rule \in AdminRules
  /\ log[h].value = value

\* C18: with an admin key configured the admin check is called exactly once
\* in every evaluation, before any requested rule; it sees isAdmin undefined
\* and every predicate called after it sees isAdmin equal to its outcome; the
\* expression requested from the factory is the second operand of
\* Or(adminCheck, expression) and is called only after the admin check
\* returned a falsy value.
C18_AdminFirst ==
  (phase = "built" /\ config.adminKey # Undefined) =>
    /\ log # <<>> =>
         /\ Cardinality({i \in 1..Len(log) :
                           log[i].event = "call" /\ log[i].rule \in AdminRules})
              = 1
         /\ \E i \in 1..Len(log) :
              /\ log[i].event = "call"
              /\ log[i].path = AdminPath
              /\ log[i].rule \in AdminRules
              /\ \A h \in 1..(i - 1) :
                   log[h].event = "call" /\ ~IsLeaf(RuleAt(accessChecker,
                                                           log[h].path))
    /\ \A i \in 1..Len(log) :
         (log[i].rule \in {"userRule", "inGrantedRule"}) =>
           \E h \in 1..(i - 1), value \in Outcomes : AdminReturned(h, value)
    /\ (pc = "running" /\ stack # <<>>) =>
         /\ Top(stack).rule.rule \in AdminRules =>
              helpers.isAdmin = "undefined"
         /\ Top(stack).rule.rule = "userRule" =>
              \E h \in 1..Len(log) : AdminReturned(h, helpers.isAdmin)
    /\ chain[1].permissions # <<>> =>
         /\ RuleAt(accessChecker, Ones(Len(chain) - 1)).rule = "orReducer"
         /\ \A i \in 1..Len(log) :
              IsPrefix(FactoryGroupPath, log[i].path) =>
                \E h \in 1..(i - 1), value \in Outcomes :
                  AdminReturned(h, value) /\ ~Passes(value)

\* the admin callable answered false and the requested predicate f1, called
\* next, sees isAdmin false
C18_Witness ==
  /\ phase = "built"
  /\ config.adminKey = Fn("isAdmin")
  /\ chain[1].permissions = <<Fn("f1")>>
  /\ pc = "running"
  /\ stack # <<>>
  /\ Top(stack).rule = userRule("f1")
  /\ returns["isAdmin"] = "false"
  /\ helpers.isAdmin = "false"

(* ------------- the policies on a missing token and an empty claim ------- *)

\* the options of a factory left to their defaults
DefaultOptions ==
  [adminClaimEnabled |-> Undefined, claimDelimiter |-> Undefined,
   claimScopeDelimiter |-> Undefined, scopeRequired |-> Undefined]

\* credentialsRequired as the handler reads it: true unless it is set
credentialsRequiredOption(value) == IF value = Undefined THEN True ELSE value

\* the configurations of the two releases with a policy option: the one that
\* reads scopeRequired (normalised by moduleArgv) and the one that reads
\* credentialsRequired
PolicyConfigs ==
  {[adminKey |-> Undefined, claimDelimiter |-> ",",
    claimScopeDelimiter |-> ":",
    scopeRequired |->
      IF moduleArgv([DefaultOptions EXCEPT !.scopeRequired = s]).out.scopeRequired
      THEN True ELSE False,
    credentialsRequired |-> Absent, requestProperty |-> Absent] :
     s \in {Undefined, True, False}}
  \cup
  {[adminKey |-> Undefined, claimDelimiter |-> ",",
    claimScopeDelimiter |-> ":", scopeRequired |-> Absent,
    credentialsRequired |-> credentialsRequiredOption(c),
    requestProperty |-> Absent] :
     c \in {Undefined, True, False}}

\* requests without a token, with an empty claim and with a granted one
PolicyRequests ==
  {[token |-> NoToken]}
    \cup {[token |-> [t |-> "object", scope |-> s, admin |-> Undefined]] :
            s \in {Undefined, Str(<<>>), Array(<<>>), Str(<<"a">>)}}

InitPolicy ==
  /\ pure = NoPure
  /\ config \in PolicyConfigs
  /\ phase = "new"
  /\ accessChecker = NoRule
  /\ chain = <<>>
  /\ thrown = NoThrow
  /\ CallIdle

NextPolicy ==
  \/ \E permissions \in ArgLists : Factory(permissions)
  \/ \E permissions \in ArgLists : Or(permissions)
  \/ \E permissions \in ArgLists : Not(permissions)
  \/ \E r \in PolicyRequests : Call(r, "middleware")
  \/ Leaf
  \/ \E outcome \in Outcomes : Callable(outcome, "none")
  \/ Settle

SpecPolicy == InitPolicy /\ [][NextPolicy]_vars

EmptyClaim ==
  /\ req.token.t = "object"
  /\ req.token.scope \in {Undefined, Str(<<>>), Array(<<>>)}

\* the calls of predicates in the log
PredicateCalls ==
  {i \in 1..Len(log) :
     log[i].event = "call" /\ IsCallable(RuleAt(accessChecker, log[i].path))}

CapabilityConfigs ==
  {[adminKey |-> k, claimDelimiter |-> ",", claimScopeDelimiter |-> ":",
    scopeRequired |-> Absent, credentialsRequired |-> True,
    requestProperty |-> Str(<<"p">>)] :
     k \in {Undefined, Str(<<"a","d","m","i","n">>)}}

CapabilityPermissions == {Str(<<"a">>), Str(<<"b">>), Fn("f1")}

CapabilityRequests ==
  {[token |-> NoToken]}
    \cup {[token |-> [t |-> "object", scope |-> s, admin |-> a]] :
            s \in {Undefined, Str(<<"a">>), Str(<<"a", ",", "b">>)},
            a \in {Undefined, True}}

CapabilityArgLists ==
  SeqsUpTo(CapabilityPermissions, MaxRules - SumLen(chain))

InitCapability ==
  /\ pure = NoPure
  /\ config \in CapabilityConfigs
  /\ phase = "new"
  /\ accessChecker = NoRule
  /\ chain = <<>>
  /\ thrown = NoThrow
  /\ CallIdle

NextCapability ==
  \/ \E permissions \in CapabilityArgLists : Factory(permissions)
  \/ \E permissions \in CapabilityArgLists : Or(permissions)
  \/ \E permissions \in CapabilityArgLists : Not(permissions)
  \/ \E r \in CapabilityRequests : Call(r, "middleware")
  \/ Leaf
  \/ \E outcome \in Outcomes : Callable(outcome, "none")
  \/ Settle

SpecCapability == InitCapability /\ [][NextCapability]_vars

\* the permission strings asked of hasPermission
Probes == {Str(<<"a">>), Str(<<"b">>), Str(<<"c">>), Str(<<"a", ":", "b">>)}

\* the admin rule of the call returned a truthy value
AdminCheckPassed ==
  \E i \in 1..Len(log) :
    /\ log[i].event = "return"
    /\ log[i].rule \in {"adminRule", "userAdminRule"}
    /\ Passes(log[i].value)

\* C21: the capability object is at the request's property only when the
\* check has passed, and the property stays undefined when it fails; after a
\* pass hasPermission(p) is true exactly when p is satisfied by the granted
\* permissions of that request, and isAdmin() is true exactly when the admin
\* check of that request passed.
C21_Capability ==
  /\ attachment # NoCapability =>
       (pc = "settled" /\ NextCalledOnce /\ rejection = NoError
          /\ Passes(result))
  /\ (pc = "settled" /\ Passes(result)) =>
       /\ attachment.t = "object"
       /\ isAdmin(attachment) <=> AdminCheckPassed
       /\ \A p \in Probes :
            hasPermission(attachment, p, config.claimScopeDelimiter) <=>
              inGrantedRule(Split(p.v, config.claimScopeDelimiter),
                            parseGrantedScope(req.token.scope,
                                              config.claimDelimiter,
                                              claimCharset,
                                              config.claimScopeDelimiter).out)

\* a request that is not an admin's passed m(f1) with 'a,b' granted: the
\* object is attached, isAdmin() is false, hasPermission('b') is true and
\* hasPermission('c') is false
C21_Witness ==
  /\ phase = "built"
  /\ config.adminKey # Undefined
  /\ pc = "settled"
  /\ Passes(result)
  /\ req.token.scope = Str(<<"a", ",", "b">>)
  /\ attachment.t = "object"
  /\ ~isAdmin(attachment)
  /\ hasPermission(attachment, Str(<<"b">>), config.claimScopeDelimiter)
  /\ ~hasPermission(attachment, Str(<<"c">>), config.claimScopeDelimiter)

\* C22 as stated: after middleware.not(p1..pn) access is denied whenever any
\* one of the permission strings p1..pn is present in the granted
\* permissions.
C22_NoneMayBePresent ==
  (Evaluated /\ Len(chain) >= 2 /\ LastCall.method = "not"
     /\ \E i \in 1..Len(LastCall.permissions) :
          /\ isString(LastCall.permissions[i])
          /\ PermissionPasses(LastCall.permissions[i])) =>
    /\ nextCalls = <<>>
    /\ Forbidden

(* ------------------------- middleware.promisify() ----------------------- *)

PromisifyPermissions == {Str(<<"a">>), Fn("f1")}

PromisifyArgLists == SeqsUpTo(PromisifyPermissions, MaxRules - SumLen(chain))

\* the handler returned by middleware.promisify() is the one that is called
NextPromisify ==
  \/ \E permissions \in PromisifyArgLists : Factory(permissions)
  \/ \E permissions \in PromisifyArgLists : Or(permissions)
  \/ \E permissions \in PromisifyArgLists : Not(permissions)
  \/ \E r \in Requests(config.adminKey) : Call(r, "promisify")
  \/ Leaf
  \/ \E outcome \in Outcomes : Callable(outcome, "none")
  \/ Settle

SpecPromisify == Init /\ [][NextPromisify]_vars

\* the error the middleware throws for the settled call at hand
ErrorOfCall ==
  LET parsed == parseGrantedScope(req.token.scope, config.claimDelimiter,
                                  claimCharset, config.claimScopeDelimiter)
  IN IF req.token.t = "undefined" THEN InternalServerError("token_not_found")
     ELSE IF parsed.err # NoError THEN parsed.err
     ELSE IF \E c \in Callables : returns[c] = "throw" THEN CallableError
     ELSE IF \E c \in Callables : returns[c] = "deny"
     THEN ForbiddenErrorWith("denied")
     ELSE ForbiddenError

\* C23: the promise of the handler returned by middleware.promisify() never
\* rejects for an error raised by the middleware; for every request next is
\* called exactly once, with no arguments when the check passes and with the
\* thrown error (ForbiddenError, InternalServerError or what a predicate
\* threw) as its single argument when it does not.
C23_Promisify ==
  /\ rejection = NoError
  /\ pc # "settled" => nextCalls = <<>>
  /\ pc = "settled" =>
       /\ Len(nextCalls) = 1
       /\ IF Passes(result) THEN nextCalls[1] = <<>>
          ELSE nextCalls[1] = <<ErrorOfCall>>

\* behind promisify() a predicate threw: next was given its error and the
\* handler's promise did not reject
C23_Witness ==
  /\ handler = "promisify"
  /\ pc = "settled"
  /\ log # <<>>
  /\ nextCalls = << <<CallableError>> >>
  /\ rejection = NoError

\* segments.join(delimiter)
RECURSIVE Join(_, _)
Join(segments, delimiter) ==
  IF segments = <<>> THEN <<>>
  ELSE IF Len(segments) = 1 THEN segments[1]
  ELSE segments[1] \o <<delimiter>> \o Join(Tail(segments), delimiter)

\* C24 as stated: for every grammar-valid requested permission string s and
\* scope delimiter d, factoryArgv produces one segment sequence for s, joining
\* it with d gives back s, and every segment is non-empty and holds neither d
\* nor '*'.
C24_RoundTrip ==
  (/\ ArgvDone
   /\ Len(pure.claims) = 1
   /\ isString(pure.claims[1])
   /\ requestedClaimRegex(pure.claims[1].v, claimCharset, pure.delimiter)) =>
    /\ pure.out.err = NoError
    /\ Len(pure.out.out) = 1
    /\ LET segments == pure.out.out[1].v
       IN /\ Join(segments, pure.delimiter) = pure.claims[1].v
          /\ \A i \in 1..Len(segments) :
               /\ segments[i] # <<>>
               /\ \A h \in 1..Len(segments[i]) :
                    segments[i][h] \notin {pure.delimiter, "*"}

(* ----------------------- order of the rule calls ------------------------ *)

\* p comes before q in declaration order: positions in accessChecker, read
\* left to right
RECURSIVE Before(_, _)
Before(p, q) ==
  IF p = <<>> \/ q = <<>> THEN FALSE
  ELSE IF p[1] # q[1] THEN p[1] < q[1]
  ELSE Before(Tail(p), Tail(q))

LeafEvent(e) ==
  e.rule \in {"inGrantedRule", "adminRule", "userRule", "userAdminRule"}

PredicateEvent(e) == e.rule \in {"userRule", "userAdminRule"}

\* the call logged at i has returned or thrown by the event at j
ResolvedBy(i, j) ==
  \E h \in (i + 1)..j :
    log[h].event \in {"return", "throw"} /\ log[h].path = log[i].path

\* the predicate calls that have not returned or thrown
Pending ==
  {i \in 1..Len(log) :
     /\ log[i].event = "call"
     /\ PredicateEvent(log[i])
     /\ ~ResolvedBy(i, Len(log))}

\* the short-circuit rules asked for the call at path p logged at i: each
\* operand on the way down to p that is not a first operand follows an
\* operand that returned truthy under andReducer, falsy under orReducer
Required(p, i) ==
  \A k \in 1..Len(p) :
    p[k] > 1 =>
      LET parent == SubSeq(p, 1, k - 1)
          earlier == Append(parent, p[k] - 1)
      IN \E h \in 1..(i - 1) :
           /\ log[h].event = "return"
           /\ log[h].path = earlier
           /\ IF RuleAt(accessChecker, parent).rule = "andReducer"
              THEN Passes(log[h].value) ELSE ~Passes(log[h].value)

\* C25: within one evaluation at most one predicate is pending; a predicate
\* is invoked only after every rule called before it has resolved, only if
\* the short-circuit rules still require it, and never out of declaration
\* order.
C25_Sequential ==
  /\ Cardinality(Pending) <= 1
  /\ \A i \in 1..Len(log) :
       (log[i].event = "call" /\ PredicateEvent(log[i])) =>
         /\ Required(log[i].path, i)
         /\ \A h \in 1..(i - 1) :
              (log[h].event = "call" /\ LeafEvent(log[h])) =>
                /\ ResolvedBy(h, i)
                /\ Before(log[h].path, log[i].path)

\* in m('a', f1).or(f1) the second f1 is pending: 'a' was refused, the first
\* f1 was not called, and nothing else is pending
C25_Witness ==
  /\ phase = "built"
  /\ Len(chain) = 2
  /\ chain[1].permissions = <<Str(<<"a">>), Fn("f1")>>
  /\ chain[2].method = "or"
  /\ chain[2].permissions = <<Fn("f1")>>
  /\ config.adminKey = Undefined
  /\ pc = "running"
  /\ Cardinality(Pending) = 1
  /\ \E i \in Pending : log[i].path = <<2>>
  /\ \E h \in 1..Len(log) :
       /\ log[h].event = "return"
       /\ log[h].path = <<1, 1>>
       /\ ~Passes(log[h].value)

(* ------------------ predicates that change their arguments -------------- *)

IsolationConfigs == {c \in Configs : ~isString(c.adminKey)}

IsolationPermissions == {Str(<<"b">>), Fn("f1")}

IsolationArgLists ==
  SeqsUpTo(IsolationPermissions, MaxRules - SumLen(chain))

\* requests whose claim is a string or an array
IsolationRequests ==
  {[token |-> [t |-> "object", scope |-> s, admin |-> Undefined]] :
     s \in {Str(<<"a">>), Array(<<Str(<<"a">>)>>)}}

InitIsolation ==
  /\ pure = NoPure
  /\ config \in IsolationConfigs
  /\ phase = "new"
  /\ accessChecker = NoRule
  /\ chain = <<>>
  /\ thrown = NoThrow
  /\ CallIdle

NextIsolation ==
  \/ \E permissions \in IsolationArgLists : Factory(permissions)
  \/ \E permissions \in IsolationArgLists : Or(permissions)
  \/ \E permissions \in IsolationArgLists : Not(permissions)
  \/ \E r \in IsolationRequests : Call(r, "middleware")
  \/ Leaf
  \/ \E outcome \in Outcomes, mutation \in Mutations :
       Callable(outcome, mutation)
  \/ Settle

SpecIsolation == InitIsolation /\ [][NextIsolation]_vars

\* the granted permissions of the request's claim as it was received
Pristine ==
  parseGrantedScope(req.token.scope, config.claimDelimiter, claimCharset,
                    config.claimScopeDelimiter).out

\* C26: whatever the predicates did to the granted-permission array, the
\* token copy or the origin-scope copy they received, the granted permissions
\* the literal rules are matched against, the arguments every predicate is
\* given and the token of the request are those of the request as received,
\* and the decision is that of the expression over them.
C26_PredicateIsolation ==
  (pc \in {"running", "settled"}) =>
    /\ req \in IsolationRequests
    /\ grantedScope = Pristine
    /\ helpers.token = req.token
    /\ helpers.originScope = req.token.scope
    /\ \A k \in 1..Len(seen) :
         /\ seen[k].grantedScope = Pristine
         /\ seen[k].token = req.token
         /\ seen[k].originScope = req.token.scope
    /\ (pc = "settled" /\ \A i \in 1..Len(log) : log[i].event # "throw") =>
         (NextCalledOnce <=> Holds(accessChecker))

\* in m(f1, 'b') with only 'a' granted f1 pushed ['b'] onto the array it was
\* given and returned true; 'b' was still refused
C26_Witness ==
  /\ phase = "built"
  /\ config.adminKey = Undefined
  /\ Len(chain) = 1
  /\ chain[1].permissions = <<Fn("f1"), Str(<<"b">>)>>
  /\ pc = "settled"
  /\ Len(seen) = 1
  /\ seen[1].mutation = "grantedScope"
  /\ returns["f1"] = "true"
  /\ rejection = ForbiddenError
  /\ nextCalls = <<>>

(* ----------------------------- thrown errors ---------------------------- *)

\* C27: an error thrown by a rule, the ForbiddenError of helpers.error
\* included, ends the evaluation at once wherever the rule sits: no rule is
\* called or returns after it, .not does not turn it into a pass, no later
\* alternative of .or is tried, next is not called, and the middleware call
\* rejects with that same error.
C27_ThrowAborts ==
  \A i \in 1..Len(log) :
    log[i].event = "throw" =>
      /\ i = Len(log)
      /\ pc = "settled"
      /\ stack = <<>>
      /\ result = "none"
      /\ nextCalls = <<>>
      /\ rejection = IF log[i].value = "deny" THEN ForbiddenErrorWith("denied")
                     ELSE CallableError

\* a predicate inside .not(...) threw after the expression before it had
\* passed, and another alternative was still to come: the call rejected with
\* the predicate's error
C27_Witness ==
  /\ phase = "built"
  /\ config.adminKey = Undefined
  /\ Len(chain) = 3
  /\ chain[2].method = "not"
  /\ chain[3].method = "or"
  /\ pc = "settled"
  /\ log # <<>>
  /\ log[Len(log)].event = "throw"
  /\ log[Len(log)].path = <<1, 2, 1>>
  /\ rejection = CallableError
  /\ nextCalls = <<>>

(* ------------------ two calls of one middleware at a time --------------- *)

TwoPermissions == {Str(<<"a">>), Fn("f1")}

TwoArgLists == SeqsUpTo(TwoPermissions, MaxRules - 1 - SumLen(chain))

TwoRequests(adminKey) ==
  {[token |-> NoToken]}
    \cup {[token |-> [t |-> "object", scope |-> s, admin |-> a]] :
            s \in {Undefined, Str(<<"a">>)},
            a \in IF isString(adminKey) THEN {Undefined, True}
                  ELSE {Undefined}}

\* the chain is built first; then two requests are handled, each call going
\* on while the other waits
NextTwo ==
  \/ \E permissions \in TwoArgLists : Factory(permissions)
  \/ \E permissions \in TwoArgLists : Or(permissions)
  \/ \E permissions \in TwoArgLists : Not(permissions)
  \/ \E r \in TwoRequests(config.adminKey) : Call(r, "middleware")
  \/ Leaf
  \/ \E outcome \in Outcomes : Callable(outcome, "none")
  \/ Settle
  \/ Switch

SpecTwo == Init /\ [][NextTwo]_vars

\* the granted permissions of the claim of the call c
PristineOf(c) ==
  parseGrantedScope(c.req.token.scope, config.claimDelimiter, claimCharset,
                    config.claimScopeDelimiter)

\* what the expression rule gives for the call c evaluated alone
RECURSIVE HoldsAlone(_, _)
HoldsAlone(rule, c) ==
  IF rule.rule = "inGrantedRule"
  THEN inGrantedRule(rule.requested, PristineOf(c).out)
  ELSE IF rule.rule = "adminRule" THEN adminRuleValue(c.req.token)
  ELSE IF IsCallable(rule) THEN Passes(c.returns[rule.callable])
  ELSE IF rule.rule = "andReducer"
  THEN \A i \in 1..Len(rule.rules) : HoldsAlone(rule.rules[i], c)
  ELSE IF rule.rule = "orReducer"
  THEN \E i \in 1..Len(rule.rules) : HoldsAlone(rule.rules[i], c)
  ELSE ~HoldsAlone(rule.rules[1], c)

\* what the admin check of the call c gives
OwnAdmin(c) ==
  IF isString(config.adminKey) THEN Bool(adminRuleValue(c.req.token))
  ELSE c.returns["isAdmin"]

\* the rule the chain of factory/.or/.not calls built
BuiltRule ==
  LET last == chain[Len(chain)]
      group == ruleQueueBuilder(last.permissions,
                                config.claimScopeDelimiter).rule
  IN IF last.method = "factory"
     THEN factoryChecker(config.adminKey, last.permissions,
                         config.claimScopeDelimiter).rule
     ELSE IF last.method = "or" THEN orReducer(<<last.before, group>>)
     ELSE andReducer(<<last.before, notRule(group)>>)

\* the call c is as it would be with no other call around
AsAlone(c) ==
  (c.pc \in {"running", "settled"} /\ c.req.token.t = "object"
     /\ PristineOf(c).err = NoError) =>
    /\ c.grantedScope = PristineOf(c).out
    /\ c.helpers.token = c.req.token
    /\ c.helpers.originScope = c.req.token.scope
    /\ c.helpers.isAdmin =
         IF \E i \in 1..Len(c.log) :
              /\ c.log[i].event = "return"
              /\ c.log[i].rule \in {"adminRule", "userAdminRule"}
         THEN OwnAdmin(c) ELSE "undefined"
    /\ \A k \in 1..Len(c.seen) :
         /\ c.seen[k].grantedScope = PristineOf(c).out
         /\ c.seen[k].token = c.req.token
         /\ c.seen[k].originScope = c.req.token.scope
         /\ c.seen[k].isAdmin =
              IF config.adminKey = Undefined
                   \/ (k = 1 /\ isFunction(config.adminKey))
              THEN "undefined" ELSE OwnAdmin(c)
    /\ (c.pc = "settled"
          /\ \A i \in 1..Len(c.log) : c.log[i].event # "throw") =>
         /\ c.nextCalls \in {<<>>, << <<>> >>}
         /\ c.nextCalls = << <<>> >> <=> HoldsAlone(accessChecker, c)
         /\ c.nextCalls = <<>> <=> c.rejection = ForbiddenError

\* C28: when two requests are evaluated by the same middleware with their
\* rule calls interleaved in any order, each request's decision, its isAdmin
\* flag and the token and scope copies its predicates see are those of the
\* request evaluated alone, and the rule tree and the configuration are as
\* they were built.
C28_RequestIsolation ==
  /\ AsAlone(CurrentCall)
  /\ AsAlone(parked)
  /\ phase = "built" => (accessChecker = BuiltRule /\ config \in Configs)

\* both calls are under way with different tokens: an admin's request has
\* been let through while the other request, not an admin's, waits for f1
C28_Witness ==
  /\ phase = "built"
  /\ isString(config.adminKey)
  /\ pc = "settled"
  /\ req.token.admin = True
  /\ helpers.isAdmin = "true"
  /\ nextCalls = << <<>> >>
  /\ parked.pc = "running"
  /\ parked.req.token.admin = Undefined
  /\ parked.helpers.isAdmin = "false"
  /\ parked.stack # <<>>
  /\ IsCallable(Top(parked.stack).rule)

(* --------------------------- empty conjunction -------------------------- *)

\* C29 as stated: a middleware built from a non-empty list of grammar-valid
\* permission strings never holds an empty conjunction: its rule has one
\* literal rule per distinct string, and it denies a token whose granted
\* permissions satisfy none of the requested ones.
C29_NoEmptyConjunction ==
  (/\ phase = "built"
   /\ Len(chain) = 1
   /\ config.adminKey = Undefined
   /\ chain[1].permissions # <<>>
   /\ \A i \in 1..Len(chain[1].permissions) :
        isString(chain[1].permissions[i])) =>
    LET permissions == chain[1].permissions
        distinct == {permissions[i] : i \in 1..Len(permissions)}
    IN /\ accessChecker # andReducer(<<>>)
       /\ IF Cardinality(distinct) = 1
          THEN accessChecker.rule = "inGrantedRule"
          ELSE /\ accessChecker.rule = "andReducer"
               /\ Len(accessChecker.rules) = Cardinality(distinct)
       /\ (/\ Evaluated
           /\ \A i \in 1..Len(permissions) : ~PermissionPasses(permissions[i]))
            => (Forbidden /\ nextCalls = <<>>)

(* ------------------------------ admin override -------------------------- *)

\* C30 as stated: when an admin key is configured and the admin check of a
\* request passes, the middleware calls next whatever permissions were
\* requested and whatever .or(...) and .not(...) calls came after.
C30_AdminOverride ==
  (pc = "settled" /\ config.adminKey # Undefined /\ AdminCheckPassed) =>
    (NextCalledOnce /\ rejection = NoError)

====
